---- MODULE Spec2Model ----
(***************************************************************************)
(* Link subsystem of the BioHarness interface (src/core):                  *)
(*   - the RPC / dispatch facade             (interface.py, BioHarness)    *)
(*   - the byte-stream framer                (protocol.py, decode_bytestream)*)
(*   - the link engine and its I/O worker    (bluetooth.py, BioharnessIO)  *)
(* The specifications share the variables below: Spec (facade and event    *)
(* loop, with FairSpec adding the loop's scheduling), SpecFramer and       *)
(* SpecStreams (the framer over an arbitrary and over a given stream),     *)
(* SpecLink (the worker thread, with FairSpecLink adding its progress and  *)
(* SpecClock the passing of time, SpecSend its sending of a given          *)
(* message), SpecSystem (the facade, the worker, the decoder of what it    *)
(* receives and the dispatcher together).                                  *)
(***************************************************************************)
EXTENDS Integers, Sequences, FiniteSets, TLC

VARIABLES
    \* --- facade (interface.py) ---
    _awaited_messages,   \* BioHarness._awaited_messages: msgid -> FIFO of futures (call numbers)
    _streaming_handlers, \* BioHarness._streaming_handlers: periodic msgid -> handler or None
    calls,               \* the _call coroutines issued so far, in issue order (with their future)
    loop_ready,          \* the event loop's ready queue (callbacks posted with call_soon[_threadsafe])
    invoked,             \* number of handler invocations executed by the event loop
    dispatched,          \* number of messages the I/O worker handed to _dispatch_message
    posted,              \* number of handler invocations posted to the event loop
    api_ops,             \* number of facade operations started (queries, toggles)
    \* --- send queue (bluetooth.py) ---
    _send_queue,         \* BioharnessIO._send_queue
    enq_count,           \* number of messages ever put on the send queue
    \* --- framer (protocol.py) ---
    f_pc,                \* position of the decode_bytestream generator
    f_msgid, f_len, f_payload, f_good,  \* its locals msgid, payload_len, payload, good
    f_raw,               \* the bytes consumed since (and including) the last STX
    f_emitted,           \* the messages yielded so far, each with the frame it came from
    f_fed,               \* the bytes pulled from the stream so far
    f_stream,            \* the stream argument: the bytes still to come when it is given
    f_badlen,            \* number of "Invalid payload length" errors logged
    \* --- link engine (bluetooth.py) ---
    w_pc,                \* position of the worker thread in _run / _transmit_loop
    _shutdown,           \* BioharnessIO._shutdown
    _reconnect,          \* BioharnessIO._reconnect
    sock,                \* the connected socket (its number), 0 when there is none
    sock_log,            \* the sock.send calls made so far, in order
    connects,            \* number of connect attempts
    io_errors,           \* number of transfers ended by an IOError
    w_iter,              \* number of iterations of the transmit/receive loop
    open_socks,          \* the sockets created and not closed by the worker (their numbers)
    now,                 \* time.time(), in seconds
    last_lifesign_sent_at, \* the local of _transmit_loop
    recv_empty,          \* the last sock.recv of the connection returned no data
    \* --- parsers (protocol.py) ---
    pn                   \* a call of parse_num: its arguments and what it returned

rpcVars == <<_awaited_messages, _streaming_handlers, calls, loop_ready, invoked, dispatched,
             posted, api_ops>>
queueVars == <<_send_queue, enq_count>>
framerVars == <<f_pc, f_msgid, f_len, f_payload, f_good, f_raw, f_emitted, f_fed,
                f_stream, f_badlen>>
linkVars == <<w_pc, _shutdown, _reconnect, sock, sock_log, connects, io_errors, w_iter,
              open_socks, now, last_lifesign_sent_at, recv_empty>>
fnVars == <<pn>>
vars == <<rpcVars, queueVars, framerVars, linkVars, fnVars>>

----------------------------------------------------------------------------
(* protocol.py: MessageConstants and MessageIDs *)

STX == 2
ETX == 3
ACK == 6
NAK == 21

GeneralDataPacket == 32
BreathingWaveformPacket == 33
ECGWaveformPacket == 34
Lifesign == 35
RtoRPacket == 36
AccelerometerPacket == 37
BluetoothDeviceDataPacket == 39
ExtendedDataPacket == 40
Accelerometer100MgPacket == 42
SummaryDataPacket == 43
EventPacket == 44
LoggingDataPacket == 63
LiveLogAccessDataPacket == 96

SetGeneralDataPacketTransmitState == 20
SetBreathingWaveformPacketTransmitState == 21
SetECGWaveformPacketTransmitState == 22
SetRtoRDataPacketTransmitState == 25
SetAccelerometerPacketTransmitState == 30
SetAccelerometer100mgPacketTransmitState == 188
SetExtendedDataPacketTransmitState == 184
SetSummaryDataPacketUpdateRate == 189

GetSerialNumber == 11
GetNetworkID == 17

\* MessageIDs: the closed enumeration of known ids
MI ==
    { GeneralDataPacket, BreathingWaveformPacket, ECGWaveformPacket, RtoRPacket,
      AccelerometerPacket, BluetoothDeviceDataPacket, ExtendedDataPacket,
      Accelerometer100MgPacket, SummaryDataPacket, EventPacket, LoggingDataPacket,
      LiveLogAccessDataPacket, Lifesign,
      SetGeneralDataPacketTransmitState, SetBreathingWaveformPacketTransmitState,
      SetECGWaveformPacketTransmitState, SetRtoRDataPacketTransmitState,
      SetAccelerometerPacketTransmitState, SetAccelerometer100mgPacketTransmitState,
      SetExtendedDataPacketTransmitState, SetSummaryDataPacketUpdateRate,
      8, 9, 10, GetSerialNumber, 12, 13, 14, 18, 23, 163, 165, 167, 172, 181, 183,
      156, 191, 209, GetNetworkID, 212 }

periodic_messages ==
    { GeneralDataPacket, BreathingWaveformPacket, ECGWaveformPacket, RtoRPacket,
      AccelerometerPacket, BluetoothDeviceDataPacket, ExtendedDataPacket,
      Accelerometer100MgPacket, SummaryDataPacket, EventPacket, LoggingDataPacket,
      LiveLogAccessDataPacket }

\* transmit_state2data_packet: transmit-state command -> data packet id
transmit_state2data_packet ==
    [ m \in { SetGeneralDataPacketTransmitState, SetBreathingWaveformPacketTransmitState,
              SetECGWaveformPacketTransmitState, SetRtoRDataPacketTransmitState,
              SetAccelerometerPacketTransmitState, SetAccelerometer100mgPacketTransmitState,
              SetExtendedDataPacketTransmitState, SetSummaryDataPacketUpdateRate } |->
        CASE m = SetGeneralDataPacketTransmitState -> GeneralDataPacket
          [] m = SetBreathingWaveformPacketTransmitState -> BreathingWaveformPacket
          [] m = SetECGWaveformPacketTransmitState -> ECGWaveformPacket
          [] m = SetRtoRDataPacketTransmitState -> RtoRPacket
          [] m = SetAccelerometerPacketTransmitState -> AccelerometerPacket
          [] m = SetAccelerometer100mgPacketTransmitState -> Accelerometer100MgPacket
          [] m = SetExtendedDataPacketTransmitState -> ExtendedDataPacket
          [] OTHER -> SummaryDataPacket ]

None == "None"

\* Message.__init__: a message with its terminator (ETX unless given)
Message(msgid, payload, fin) == [msgid |-> msgid, payload |-> payload, fin |-> fin]

----------------------------------------------------------------------------
(* Bounds and input sets of the facade model *)

MaxOps == 4     \* facade operations started plus inbound messages dispatched per run

Handlers == {"h1"}                           \* consumer callbacks
Intervals == {5}                             \* summary integration intervals
QueryIds == {GetSerialNumber}                \* queries issued by the model
ToggleIds == {SetECGWaveformPacketTransmitState}   \* toggles issued through _toggle_handler
ModelPeriodic == {ECGWaveformPacket, SummaryDataPacket, EventPacket}
CommandIds == QueryIds \cup ToggleIds \cup {SetSummaryDataPacketUpdateRate}
\* the ids the model exercises; the dictionaries of the facade are keyed by
\* these (the other ids of MI behave alike and are never used by the model)
ModelIds == CommandIds \cup ModelPeriodic \cup {Lifesign}

\* the (msgid, fin) pairs the framer hands to the dispatcher in the model
InboundKinds ==
    (CommandIds \X {ACK, NAK}) \cup (QueryIds \X {ETX})
        \cup (ModelPeriodic \X {ETX}) \cup {<<Lifesign, ETX>>}

NoMsg == [msgid |-> 0, payload |-> <<>>, fin |-> 0, no |-> 0]

\* Python values passed as payload argument: a bare int, or a list/tuple/bytes
PyInt(n) == <<"int", n>>
PyList(s) == <<"list", s>>

----------------------------------------------------------------------------
(* interface.py: BioHarness *)

\* faulty variant: ensure_fin_ok that takes every valid terminator for success
ensure_fin_ok_any_fin(msg) == msg.fin \in {ETX, ACK, NAK}

\* Message.ensure_fin_ok: TRUE when it returns, FALSE when it raises RuntimeError
ensure_fin_ok(msg) == msg.fin \in {ACK, ETX}

\* BioHarness._send: wrap a bare value into a list, build the Message
\* (terminator ETX by default) and put it on the send queue
SendPayload(payload) == IF payload[1] = "int" THEN <<payload[2]>> ELSE payload[2]

_send(msgid, payload) ==
    /\ _send_queue' = Append(_send_queue,
                            [msg |-> Message(msgid, SendPayload(payload), ETX),
                             no |-> enq_count + 1])
    /\ enq_count' = enq_count + 1

\* a future whose reply slot has been popped by the dispatcher but whose
\* set_result callback has not run yet
Assigned(c) ==
    \E i \in DOMAIN loop_ready : loop_ready[i].op = "set_result" /\ loop_ready[i].call = c

\* a call that is still in flight: issued, no reply taken for it, not timed out
InFlight(c) ==
    /\ calls[c].outcome = "awaiting"
    /\ calls[c].fut = "pending"
    /\ ~Assigned(c)

Failed(c) == calls[c].outcome \in {"TimeoutError", "RuntimeError"}

\* BioHarness._call up to its await: create the future, register it in the
\* FIFO of its message id, send the command (no suspension point in between)
_call(msgid, payload, toggle, handler) ==
    /\ api_ops + dispatched < MaxOps
    /\ api_ops' = api_ops + 1
    /\ LET c == Len(calls) + 1 IN
        /\ calls' = Append(calls,
                [msgid |-> msgid, toggle |-> toggle, handler |-> handler,
                 fut |-> "pending", result |-> NoMsg, outcome |-> "awaiting",
                 err |-> 0,
                 after |-> \E z \in DOMAIN calls : calls[z].msgid = msgid /\ Failed(z)])
        /\ _awaited_messages' = [_awaited_messages EXCEPT ![msgid] = Append(@, c)]
    /\ _send(msgid, payload)

\* faulty variant: _toggle_handler with the on and off payloads exchanged
toggle_handler_swapped(msgid, handler, payload_on, payload_off) ==
    _call(msgid, IF handler # None THEN payload_off ELSE payload_on, TRUE, handler)

\* BioHarness._toggle_handler up to the await of _call
_toggle_handler(msgid, handler, payload_on, payload_off) ==
    _call(msgid, IF handler # None THEN payload_on ELSE payload_off, TRUE, handler)

\* get_serial_number and the other queries: _call(msgid) with the empty payload
Query ==
    /\ \E msgid \in QueryIds : _call(msgid, PyList(<<>>), FALSE, None)
    /\ UNCHANGED <<framerVars, linkVars, fnVars>>
    /\ UNCHANGED <<_streaming_handlers, loop_ready, invoked, dispatched, posted>>

\* toggle_ecg and the other transmit-state toggles (payload_on=1, payload_off=0)
Toggle ==
    /\ \E msgid \in ToggleIds, handler \in Handlers \cup {None} :
            _toggle_handler(msgid, handler, PyInt(1), PyInt(0))
    /\ UNCHANGED <<framerVars, linkVars, fnVars>>
    /\ UNCHANGED <<_streaming_handlers, loop_ready, invoked, dispatched, posted>>

\* toggle_summary(handler, ival)
toggle_summary ==
    /\ \E handler \in Handlers \cup {None}, ival \in Intervals :
            _toggle_handler(SetSummaryDataPacketUpdateRate, handler,
                            PyList(<<ival, 0>>), PyList(<<0, 0>>))
    /\ UNCHANGED <<framerVars, linkVars, fnVars>>
    /\ UNCHANGED <<_streaming_handlers, loop_ready, invoked, dispatched, posted>>

\* toggle_events: no command, the slot is written at once
toggle_events ==
    /\ \E handler \in Handlers \cup {None} :
            _streaming_handlers' = [_streaming_handlers EXCEPT ![EventPacket] = handler]
    /\ api_ops + dispatched < MaxOps
    /\ api_ops' = api_ops + 1
    /\ UNCHANGED <<framerVars, linkVars, fnVars>>
    /\ UNCHANGED <<_awaited_messages, calls, loop_ready, invoked, dispatched, posted, queueVars>>

\* the set of calls for msgid that are in flight
Waiting(msgid) == {c \in DOMAIN calls : calls[c].msgid = msgid /\ InFlight(c)}

\* faulty variant: the dispatcher posting the handler slot without testing it
_dispatch_message_no_slot_test(msg) ==
    IF msg.msgid \in DOMAIN _streaming_handlers
    THEN /\ loop_ready' = Append(loop_ready, [op |-> "handler", call |-> 0,
                                              h |-> _streaming_handlers[msg.msgid],
                                              msg |-> msg])
         /\ posted' = posted + 1
         /\ UNCHANGED _awaited_messages
    ELSE IF msg.msgid = Lifesign
    THEN UNCHANGED <<_awaited_messages, loop_ready, posted>>
    ELSE LET queue == _awaited_messages[msg.msgid] IN
         IF queue # <<>>
         THEN /\ _awaited_messages' = [_awaited_messages EXCEPT ![msg.msgid] = Tail(queue)]
              /\ loop_ready' = Append(loop_ready, [op |-> "set_result", call |-> Head(queue),
                                                   h |-> None, msg |-> msg])
              /\ UNCHANGED posted
         ELSE UNCHANGED <<_awaited_messages, loop_ready, posted>>

\* BioHarness._dispatch_message, run by the I/O worker for each decoded message
_dispatch_message(msg) ==
    IF msg.msgid \in DOMAIN _streaming_handlers
    THEN \* periodic / streaming data
         LET handler == _streaming_handlers[msg.msgid] IN
         IF handler # None
         THEN /\ loop_ready' = Append(loop_ready, [op |-> "handler", call |-> 0,
                                                   h |-> handler, msg |-> msg])
              /\ posted' = posted + 1
              /\ UNCHANGED _awaited_messages
         ELSE UNCHANGED <<_awaited_messages, loop_ready, posted>>
    ELSE IF msg.msgid = Lifesign
    THEN \* nothing to do in response to life-sign messages
         UNCHANGED <<_awaited_messages, loop_ready, posted>>
    ELSE \* assume that this is a response to some command
         LET queue == _awaited_messages[msg.msgid] IN
         IF queue # <<>>
         THEN LET fut == Head(queue) IN
              /\ _awaited_messages' = [_awaited_messages EXCEPT ![msg.msgid] = Tail(queue)]
              /\ loop_ready' = Append(loop_ready, [op |-> "set_result", call |-> fut,
                                                   h |-> None, msg |-> msg])
              /\ UNCHANGED posted
         ELSE UNCHANGED <<_awaited_messages, loop_ready, posted>>

\* the I/O worker hands the next decoded message to the dispatcher
Dispatch ==
    /\ api_ops + dispatched < MaxOps
    /\ dispatched' = dispatched + 1
    /\ \E k \in InboundKinds :
          _dispatch_message([msgid |-> k[1], payload |-> <<>>, fin |-> k[2],
                             no |-> dispatched + 1])
    /\ UNCHANGED <<framerVars, linkVars, fnVars>>
    /\ UNCHANGED <<_streaming_handlers, calls, invoked, queueVars, api_ops>>

\* faulty variant: _toggle_handler writing the handler slot whatever the
\* terminator of the reply
Resume_slot_first(c) ==
    IF calls[c].outcome # "awaiting"
    THEN UNCHANGED <<calls, _streaming_handlers>>
    ELSE LET msg == calls[c].result IN
         /\ _streaming_handlers' =
                IF calls[c].toggle
                THEN [_streaming_handlers EXCEPT
                        ![transmit_state2data_packet[calls[c].msgid]] = calls[c].handler]
                ELSE _streaming_handlers
         /\ IF ensure_fin_ok(msg)
            THEN calls' = [calls EXCEPT ![c].outcome = "returned"]
            ELSE calls' = [calls EXCEPT ![c].outcome = "RuntimeError", ![c].err = msg.msgid]

\* the rest of _call and _toggle_handler, run when the task is woken with the
\* future's result: ensure_fin_ok, then (toggle) write the handler slot
Resume(c) ==
    IF calls[c].outcome # "awaiting"
    THEN UNCHANGED <<calls, _streaming_handlers>>
    ELSE LET msg == calls[c].result IN
         IF ensure_fin_ok(msg)
         THEN /\ calls' = [calls EXCEPT ![c].outcome = "returned"]
              /\ _streaming_handlers' =
                    IF calls[c].toggle
                    THEN [_streaming_handlers EXCEPT
                            ![transmit_state2data_packet[calls[c].msgid]] = calls[c].handler]
                    ELSE _streaming_handlers
         ELSE /\ calls' = [calls EXCEPT ![c].outcome = "RuntimeError", ![c].err = msg.msgid]
              /\ UNCHANGED _streaming_handlers

\* fut.set_result(msg) run on the loop: a cancelled future raises
\* InvalidStateError inside the callback, which the loop logs and drops
SetResult(c, msg) ==
    IF calls[c].fut = "pending"
    THEN /\ calls' = [calls EXCEPT ![c].fut = "done", ![c].result = msg]
         /\ loop_ready' = Append(Tail(loop_ready),
                                 [op |-> "wakeup", call |-> c, h |-> None, msg |-> NoMsg])
    ELSE /\ loop_ready' = Tail(loop_ready)
         /\ UNCHANGED calls

\* one iteration of the event loop: run the oldest ready callback
LoopStep ==
    /\ loop_ready # <<>>
    /\ LET cb == Head(loop_ready) IN
        CASE cb.op = "set_result" ->
                /\ SetResult(cb.call, cb.msg)
                /\ UNCHANGED <<_streaming_handlers, invoked>>
          [] cb.op = "wakeup" ->
                /\ Resume(cb.call)
                /\ loop_ready' = Tail(loop_ready)
                /\ UNCHANGED invoked
          [] OTHER ->
                \* handler(msg)
                /\ invoked' = invoked + 1
                /\ loop_ready' = Tail(loop_ready)
                /\ UNCHANGED <<calls, _streaming_handlers>>
    /\ UNCHANGED <<framerVars, linkVars, fnVars>>
    /\ UNCHANGED <<_awaited_messages, dispatched, posted, queueVars, api_ops>>

\* faulty variant: _call awaiting the future without a deadline
Timeout_never ==
    /\ FALSE
    /\ UNCHANGED vars

\* asyncio.wait_for(fut, self._timeout) expires: the future is cancelled and
\* _call raises TimeoutError.  All calls share one timeout, so the timers
\* expire in issue order.  When the future already holds its result but the
\* task has not been woken yet, the outcome depends on the asyncio version
\* (result returned, or TimeoutError): both are allowed.
Timeout ==
    /\ \E c \in DOMAIN calls :
        /\ calls[c].outcome = "awaiting"
        /\ \A d \in 1..(c - 1) : ~(calls[d].outcome = "awaiting" /\ calls[d].fut = "pending")
        /\ calls' = [calls EXCEPT ![c].outcome = "TimeoutError",
                                  ![c].fut = IF @ = "pending" THEN "cancelled" ELSE @]
    /\ UNCHANGED <<framerVars, linkVars, fnVars>>
    /\ UNCHANGED <<_awaited_messages, _streaming_handlers, loop_ready, invoked, dispatched,
                   posted, queueVars, api_ops>>

----------------------------------------------------------------------------
(* Initial values of each component *)

\* BioHarness.__init__: empty FIFOs, no handler installed
InitRpc ==
    /\ _awaited_messages = [mi \in MI \cap ModelIds |-> <<>>]
    /\ _streaming_handlers = [mi \in periodic_messages \cap ModelIds |-> None]
    /\ calls = <<>>
    /\ loop_ready = <<>>
    /\ invoked = 0
    /\ dispatched = 0
    /\ posted = 0
    /\ api_ops = 0

\* BioharnessIO.__init__: empty send queue
InitQueue ==
    /\ _send_queue = <<>>
    /\ enq_count = 0

\* decode_bytestream before its first next(stream)
\* a stream whose bytes are not fixed in advance; of a given stream, rest is
\* what next(stream) has not returned yet, and kind, pre and m say how it was
\* put together: pre, then a frame made from the message m
AnyStream == [given |-> FALSE, rest |-> <<>>, kind |-> "any", pre |-> <<>>,
              m |-> [msgid |-> 0, payload |-> <<>>, fin |-> 0]]

\* decode_bytestream before its first next(stream)
InitDecoder ==
    /\ f_pc = "scan"
    /\ f_msgid = 0
    /\ f_len = 0
    /\ f_payload = <<>>
    /\ f_good = TRUE
    /\ f_raw = <<>>
    /\ f_emitted = <<>>
    /\ f_fed = <<>>
    /\ f_badlen = 0

\* decode_bytestream(stream) of a stream not fixed in advance
InitFramer == InitDecoder /\ f_stream = AnyStream

\* BioharnessIO.__init__: lifesign_interval=2
lifesign_interval == 2

\* BioharnessIO.__init__: the worker thread is started, nothing connected yet;
\* the wall clock reads more than one life-sign interval past its epoch
InitLink ==
    /\ w_pc = "loop_head"
    /\ _shutdown = FALSE
    /\ _reconnect \in BOOLEAN
    /\ sock = 0
    /\ sock_log = <<>>
    /\ connects = 0
    /\ io_errors = 0
    /\ w_iter = 0
    /\ open_socks = {}
    /\ now = lifesign_interval + 1
    /\ last_lifesign_sent_at = 0
    /\ recv_empty = FALSE

\* no call of parse_num under way
NoCall == [encoded |-> <<>>, signed |-> FALSE, inval |-> <<>>, ret |-> <<>>]

InitFn == pn = NoCall

----------------------------------------------------------------------------
(* Spec: the facade, the dispatcher and the event loop *)

Init == InitRpc /\ InitQueue /\ InitFramer /\ InitLink /\ _reconnect = TRUE /\ InitFn

Next ==
    \/ Query
    \/ Toggle
    \/ toggle_summary
    \/ toggle_events
    \/ Dispatch
    \/ LoopStep
    \/ Timeout

Spec == Init /\ [][Next]_vars

\* FairSpec: the event loop keeps running (ready callbacks are executed) and
\* the timers armed by wait_for expire
FairSpec == Spec /\ WF_vars(LoopStep) /\ WF_vars(Timeout)

----------------------------------------------------------------------------
(* utilities.py: the BHT checksum *)

RECURSIVE BitXor(_, _)
\* a ^ b on non-negative integers
BitXor(a, b) ==
    IF a = 0 /\ b = 0 THEN 0
    ELSE ((a + b) % 2) + 2 * BitXor(a \div 2, b \div 2)

RECURSIVE crc8_bits(_, _)
\* the inner loop of crc8_slow: "bit" more rounds of shift and conditional xor
crc8_bits(crc, bit) ==
    IF bit = 0 THEN crc
    ELSE crc8_bits(IF crc % 2 = 1 THEN BitXor(crc \div 2, 140) ELSE crc \div 2, bit - 1)

RECURSIVE crc8_slow_from(_, _)
\* the outer loop of crc8_slow, entered with accumulator crc
crc8_slow_from(crc, payload) ==
    IF payload = <<>> THEN crc
    ELSE crc8_slow_from(crc8_bits(BitXor(crc, Head(payload)), 8), Tail(payload))

crc8_slow(payload) == crc8_slow_from(0, payload)

\* faulty variant: the table filled one entry off
CRC_LUT_shifted == [b \in 0..255 |-> crc8_slow(<<(b + 1) % 256>>)]

\* CRC_LUT = [crc8_slow([b]) for b in range(256)]
CRC_LUT == [b \in 0..255 |-> crc8_slow(<<b>>)]

RECURSIVE crc8_from(_, _)
\* the loop of crc8, "accum = CRC_LUT[accum ^ b]" for each b of the payload,
\* entered with accumulator accum; the loop over a payload is the loop over
\* its first half followed by the loop over its second half
crc8_from(accum, payload) ==
    IF payload = <<>> THEN accum
    ELSE IF Len(payload) = 1 THEN CRC_LUT[BitXor(accum, payload[1])]
    ELSE LET h == Len(payload) \div 2
             a == crc8_from(accum, SubSeq(payload, 1, h))
         IN CASE a \in 0..255 -> crc8_from(a, SubSeq(payload, h + 1, Len(payload)))

\* faulty variant: a checksum of the last payload byte alone
crc8_last_byte(payload) ==
    IF payload = <<>> THEN 0 ELSE CRC_LUT[payload[Len(payload)]]

crc8(payload) == crc8_from(0, payload)

----------------------------------------------------------------------------
(* protocol.py: decode_message, encode_message, decode_bytestream *)

\* the payload length each typed message class asserts
PayloadLen ==
    [mi \in {GeneralDataPacket, SummaryDataPacket, ECGWaveformPacket, BreathingWaveformPacket,
             AccelerometerPacket, Accelerometer100MgPacket, RtoRPacket} |->
        CASE mi = GeneralDataPacket -> 53
          [] mi = SummaryDataPacket -> 71
          [] mi = ECGWaveformPacket -> 88
          [] mi = BreathingWaveformPacket -> 32
          [] mi = AccelerometerPacket -> 84
          [] mi = Accelerometer100MgPacket -> 84
          [] mi = RtoRPacket -> 45]

\* days of a month, as datetime.datetime checks them
DaysIn(year, month) ==
    IF month \in {4, 6, 9, 11} THEN 30
    ELSE IF month # 2 THEN 31
    ELSE IF year % 4 = 0 /\ (year % 100 # 0 \/ year % 400 = 0) THEN 29 ELSE 28

\* StreamingMessage.__init__ does not raise: at least 9 bytes, and the year,
\* month and day of the header are a date datetime.datetime accepts
StreamingHeaderOk(payload) ==
    /\ Len(payload) >= 9
    /\ LET year == payload[2] + 256 * payload[3]
           month == payload[4]
           day == payload[5]
       IN /\ year \in 1..9999
          /\ month \in 1..12
          /\ day \in 1..DaysIn(year, month)

\* a Python number: an int, or the float NaN (math.nan)
NaN == [nan |-> TRUE, num |-> 0]
Num(v) == [nan |-> FALSE, num |-> v]

\* payload[a:b] of Python: the elements at offsets a..b-1 that exist
Slice(payload, a, b) ==
    IF a >= Len(payload) \/ b <= a THEN <<>>
    ELSE SubSeq(payload, a + 1, IF b < Len(payload) THEN b ELSE Len(payload))

RECURSIVE parse_num_loop(_, _, _)
\* parse_num: "for val in reversed(encoded[:num_bytes]): num = num*256 + int(val)",
\* with the bytes at positions 1..k still to come
parse_num_loop(encoded, k, num) ==
    IF k = 0 THEN num ELSE parse_num_loop(encoded, k - 1, num * 256 + encoded[k])

\* faulty variant: the sign taken from the first byte
parse_num_sign_of_first(encoded, signed, inval) ==
    LET num_bytes == Len(encoded)
        num == parse_num_loop(encoded, num_bytes, 0)
    IN IF num_bytes > 4 THEN [exc |-> "ValueError", val |-> NaN]
       ELSE IF signed /\ num_bytes = 0 THEN [exc |-> "IndexError", val |-> NaN]
       ELSE IF inval # <<>> /\ num = inval[1] THEN [exc |-> "", val |-> NaN]
       ELSE IF signed /\ encoded[1] > 127
       THEN [exc |-> "", val |-> Num(num - 2^(8 * num_bytes))]
       ELSE [exc |-> "", val |-> Num(num)]

\* parse_num(encoded, signed, inval=...) without num_bytes; inval is <<>> for
\* None.  The result is the value returned, or the exception raised: more
\* than 4 bytes is a ValueError, and "encoded[num_bytes-1]" of an empty
\* sequence an IndexError.  NaN is tested first and stays NaN under "-=".
parse_num(encoded, signed, inval) ==
    LET num_bytes == Len(encoded)
        num == parse_num_loop(encoded, num_bytes, 0)
    IN IF num_bytes > 4 THEN [exc |-> "ValueError", val |-> NaN]
       ELSE IF signed /\ num_bytes = 0 THEN [exc |-> "IndexError", val |-> NaN]
       ELSE IF inval # <<>> /\ num = inval[1] THEN [exc |-> "", val |-> NaN]
       ELSE IF signed /\ encoded[num_bytes] > 127
       THEN [exc |-> "", val |-> Num(num - 2^(8 * num_bytes))]
       ELSE [exc |-> "", val |-> Num(num)]

\* parse_num(payload[i:i+2], False): the little-endian word at offset i
Word16(payload, i) == payload[i + 1] + 256 * payload[i + 2]

\* SummaryDataMessageV2.__init__ does not raise: 71 bytes, a header that
\* parses, and no TypeError of "&" with a float operand: "status_info & 3" and
\* "ext_status_info & 2**15" get the NaN that parse_num returns for inval=0
\* and inval=0xFFFF, and "(ext_status_info >> 5) & 3 + flags_valid" adds the
\* NaN of flags_valid to 3 unless bit 15 of ext_status_info is set
SummaryV2Ok(payload) ==
    /\ Len(payload) = 71
    /\ StreamingHeaderOk(payload)
    /\ Word16(payload, 56) # 0
    /\ Word16(payload, 69) # 65535
    /\ Word16(payload, 69) >= 32768

\* SummaryDataMessageV3.__init__ does not raise: 71 bytes, a header that
\* parses, and a status_info word other than 0 (inval=0)
SummaryV3Ok(payload) ==
    /\ Len(payload) = 71
    /\ StreamingHeaderOk(payload)
    /\ Word16(payload, 32) # 0

\* utilities.py, reverse_bits8_slow: int('{:08b}'.format(n)[::-1], 2), the
\* binary digit of weight 2^k moved to weight 2^(7-k)
reverse_bits8_slow(n) ==
    ((n \div 1) % 2) * 128 + ((n \div 2) % 2) * 64 + ((n \div 4) % 2) * 32
        + ((n \div 8) % 2) * 16 + ((n \div 16) % 2) * 8 + ((n \div 32) % 2) * 4
        + ((n \div 64) % 2) * 2 + ((n \div 128) % 2) * 1

REVERSE_BITS_LUT == [b \in 0..255 |-> reverse_bits8_slow(b)]

reverse_bits8(seq) == [i \in DOMAIN seq |-> REVERSE_BITS_LUT[seq[i]]]

\* bit k (from 0) of a byte string as the unpacker reads it, each byte most
\* significant bit first
BitOf(bytes, k) == (bytes[(k \div 8) + 1] \div 2^(7 - (k % 8))) % 2

RECURSIVE lsb_first(_, _, _)
\* a field of the format "<u": its bits, from bit "at" on, taken least
\* significant first
lsb_first(bytes, at, bits) ==
    IF bits = 0 THEN 0 ELSE BitOf(bytes, at) + 2 * lsb_first(bytes, at + 1, bits - 1)

bits_per_val == 10

\* unpacker.unpack(bytes) for the format ('<u10' or '<s10') * vals: the
\* fields one after the other, a signed one in two's complement
unpack(bytes, vals, is_signed) ==
    [i \in 1..vals |->
        LET u == lsb_first(bytes, bits_per_val * (i - 1), bits_per_val)
        IN IF is_signed = "True" /\ u >= 2^(bits_per_val - 1) THEN u - 2^bits_per_val ELSE u]

\* faulty variant: the zero sample shifted like any other
make_sequence_unpacker_no_nan(vals_per_chunk, is_signed, seq) ==
    LET vals == unpack(reverse_bits8(seq), vals_per_chunk, is_signed)
    IN [i \in DOMAIN vals |->
           IF is_signed = "shift" THEN Num(vals[i] - 2^(bits_per_val - 1)) ELSE Num(vals[i])]

\* make_sequence_unpacker(vals_per_chunk, is_signed)(seq), is_signed one of
\* "True", "False", "shift": the bits of each byte reversed, the fields
\* unpacked, and for "shift" a zero made NaN and the others moved down by 512
make_sequence_unpacker(vals_per_chunk, is_signed, seq) ==
    LET vals == unpack(reverse_bits8(seq), vals_per_chunk, is_signed)
    IN [i \in DOMAIN vals |->
           IF is_signed = "shift"
           THEN IF vals[i] # 0 THEN Num(vals[i] - 2^(bits_per_val - 1)) ELSE NaN
           ELSE Num(vals[i])]

RECURSIVE WaveformLoop(_, _, _, _, _)
\* WaveformMessage.__init__, "for ofs in range(9, len(payload), bytes_per_chunk)":
\* the values of the chunks from offset ofs on, the unpacker remade for the
\* values left when they are fewer than a chunk holds
WaveformLoop(payload, ofs, bytes_per_chunk, vals_per_packet, signed) ==
    IF ofs >= Len(payload) THEN <<>>
    ELSE LET vals_per_chunk == (bytes_per_chunk * 4) \div 5
             vals == IF vals_per_packet < vals_per_chunk THEN vals_per_packet
                     ELSE vals_per_chunk
         IN make_sequence_unpacker(vals, signed, Slice(payload, ofs, ofs + bytes_per_chunk))
                \o WaveformLoop(payload, ofs + bytes_per_chunk, bytes_per_chunk,
                                vals_per_packet - vals_per_chunk, signed)

\* faulty variant: the loop over the whole chunks only, a shorter last
\* chunk left out
WaveformMessage_whole_chunks(payload, bytes_per_chunk, vals_per_packet, signed) ==
    LET n == (Len(payload) - 9) \div bytes_per_chunk
    IN WaveformLoop(Slice(payload, 0, 9 + n * bytes_per_chunk), 9, bytes_per_chunk,
                    vals_per_packet, signed)

\* WaveformMessage.__init__: self.waveform
WaveformMessage(payload, bytes_per_chunk, vals_per_packet, signed) ==
    WaveformLoop(payload, 9, bytes_per_chunk, vals_per_packet, signed)

\* w[a::step] of Python
Stride(w, a, step) ==
    [k \in 1..((Len(w) - a + step - 1) \div step) |-> w[a + step * (k - 1) + 1]]

\* the attributes of a message that no class sets
NoAttrs ==
    [waveform |-> <<>>, accel_x |-> <<>>, accel_y |-> <<>>, accel_z |-> <<>>,
     scale |-> <<1, 1>>, event_code |-> <<>>, event_data |-> <<>>]

\* EventMessage.__init__: event_code and event_data
EventMessage(payload) ==
    [NoAttrs EXCEPT !.event_code = <<parse_num(Slice(payload, 9, 11), FALSE, <<>>).val.num>>,
                    !.event_data = Slice(payload, 11, Len(payload))]

\* the attributes the class of a message computes from its payload: the
\* samples before they are scaled, the factor <<p, q>> for p/q they are
\* scaled by, the axes of the accelerometer classes (which delete
\* waveform), the event code and the event data
message_attrs(msgid, payload) ==
    CASE msgid = ECGWaveformPacket ->
            [NoAttrs EXCEPT !.waveform = WaveformMessage(payload, 5, 63, "shift"),
                            !.scale = <<1, 40>>]
      [] msgid = BreathingWaveformPacket ->
            [NoAttrs EXCEPT !.waveform = WaveformMessage(payload, 5, 18, "shift")]
      [] msgid = AccelerometerPacket ->
            LET w == WaveformMessage(payload, 15, 60, "shift")
            IN [NoAttrs EXCEPT !.accel_x = Stride(w, 0, 3), !.accel_y = Stride(w, 1, 3),
                               !.accel_z = Stride(w, 2, 3)]
      [] msgid = Accelerometer100MgPacket ->
            LET w == WaveformMessage(payload, 15, 60, "True")
            IN [NoAttrs EXCEPT !.accel_x = Stride(w, 0, 3), !.accel_y = Stride(w, 1, 3),
                               !.accel_z = Stride(w, 2, 3), !.scale = <<1, 10>>]
      [] msgid = RtoRPacket ->
            [NoAttrs EXCEPT !.waveform =
                [k \in 1..((Len(payload) - 9 + 1) \div 2) |->
                    parse_num(Slice(payload, 9 + 2 * (k - 1), 9 + 2 * k), TRUE, <<>>).val]]
      [] msgid = EventPacket -> EventMessage(payload)
      [] OTHER -> NoAttrs

\* the class of the object decode_message returns
message_class(msgid, payload) ==
    CASE msgid = ECGWaveformPacket -> "ECGWaveformMessage"
      [] msgid = Accelerometer100MgPacket -> "Accelerometer100MgWaveformMessage"
      [] msgid = AccelerometerPacket -> "AccelerometerWaveformMessage"
      [] msgid = BreathingWaveformPacket -> "BreathingWaveformMessage"
      [] msgid = EventPacket -> "EventMessage"
      [] msgid = GeneralDataPacket -> "GeneralDataMessage"
      [] msgid = SummaryDataPacket ->
            IF payload[10] = 3 THEN "SummaryDataMessageV3" ELSE "SummaryDataMessageV2"
      [] msgid = RtoRPacket -> "RtoRMessage"
      [] OTHER -> "Message"

\* faulty variant: the parsers never raise
decode_message_no_raise(msgid, payload, fin) ==
    IF msgid \in MI THEN <<Message(msgid, payload, fin)>> ELSE <<>>

\* decode_message: <<m>> for the message object m it returns, <<>> when it
\* returns None or raises
decode_message(msgid, payload, fin) ==
    IF msgid \in {ECGWaveformPacket, Accelerometer100MgPacket, AccelerometerPacket,
                  BreathingWaveformPacket, GeneralDataPacket, RtoRPacket}
    THEN IF Len(payload) = PayloadLen[msgid] /\ StreamingHeaderOk(payload)
         THEN <<Message(msgid, payload, fin)>> ELSE <<>>
    ELSE IF msgid = EventPacket
    THEN IF StreamingHeaderOk(payload) THEN <<Message(msgid, payload, fin)>> ELSE <<>>
    ELSE IF msgid = SummaryDataPacket
    THEN IF /\ Len(payload) >= 10
            /\ \/ payload[10] = 3 /\ SummaryV3Ok(payload)
               \/ payload[10] = 2 /\ SummaryV2Ok(payload)
         THEN <<Message(msgid, payload, fin)>> ELSE <<>>
    ELSE IF msgid \in MI THEN <<Message(msgid, payload, fin)>>
    ELSE <<>>

\* faulty variant: the frame closed with ETX whatever the message's terminator
encode_message_always_etx(msg) ==
    <<STX, msg.msgid, Len(msg.payload)>> \o msg.payload \o <<crc8(msg.payload), ETX>>

\* faulty variant: the checksum taken over the id and the payload
encode_message_crc_with_id(msg) ==
    <<STX, msg.msgid, Len(msg.payload)>> \o msg.payload
        \o <<crc8(<<msg.msgid>> \o msg.payload), msg.fin>>

\* encode_message: the bytes of the frame
encode_message(msg) ==
    <<STX, msg.msgid, Len(msg.payload)>> \o msg.payload \o <<crc8(msg.payload), msg.fin>>

valid_fins == {ETX, ACK, NAK}

\* the longest payload decode_bytestream reads ("if payload_len > 128")
MaxPayloadLen == 128

MaxStream == 6     \* bytes pulled from the stream per run

\* byte values of the stream: LEN 0 and 1, STX, ETX, NAK (also a command id),
\* 32 (a typed id; crc8 of <<32>> is 35), 35 (Lifesign), 201 (LEN > 128, unknown id)
Bytes == {0, 1, STX, ETX, NAK, GeneralDataPacket, Lifesign, 201}

\* what next(stream) can return
Avail ==
    IF f_stream.given
    THEN IF f_stream.rest = <<>> THEN {} ELSE {Head(f_stream.rest)}
    ELSE Bytes

\* next(stream) returns b.  The generator runs only between two rounds of the
\* "for msg in decode_bytestream(...)" loop of _run: a message it yielded is
\* handled before it pulls its next byte
Pull(b) ==
    /\ f_stream.given \/ Len(f_fed) < MaxStream
    /\ f_stream.kind = "recv" => Len(f_emitted) = dispatched
    /\ f_fed' = Append(f_fed, b)
    /\ f_stream' = IF f_stream.given
                   THEN [f_stream EXCEPT !.rest = Tail(@)]
                   ELSE f_stream

\* faulty variant: the byte after a frame is taken for the start of the next
ScanSTX_no_scan ==
    /\ f_pc = "scan"
    /\ \E b \in Avail :
          /\ Pull(b)
          /\ f_pc' = "msgid" /\ f_raw' = <<b>> /\ f_good' = TRUE
    /\ UNCHANGED <<f_msgid, f_len, f_payload, f_emitted, f_badlen>>
    /\ UNCHANGED <<rpcVars, queueVars, linkVars, fnVars>>

\* "while next(stream) != MC.STX: pass", with good = True of the enclosing loop
ScanSTX ==
    /\ f_pc = "scan"
    /\ \E b \in Avail :
          /\ Pull(b)
          /\ IF b = STX
             THEN f_pc' = "msgid" /\ f_raw' = <<b>> /\ f_good' = TRUE
             ELSE UNCHANGED <<f_pc, f_raw, f_good>>
    /\ UNCHANGED <<f_msgid, f_len, f_payload, f_emitted, f_badlen>>
    /\ UNCHANGED <<rpcVars, queueVars, linkVars, fnVars>>

\* faulty variant: an unknown id sends the decoder back to its scan for STX
ReadMsgid_abort_unknown ==
    /\ f_pc = "msgid"
    /\ \E b \in Avail :
          /\ Pull(b)
          /\ f_msgid' = b
          /\ f_good' = (f_good /\ b \in MI)
          /\ f_raw' = Append(f_raw, b)
          /\ f_pc' = IF b \in MI THEN "len" ELSE "scan"
    /\ UNCHANGED <<f_len, f_payload, f_emitted, f_badlen>>
    /\ UNCHANGED <<rpcVars, queueVars, linkVars, fnVars>>

\* "msgid = next(stream)" and the test of the id
ReadMsgid ==
    /\ f_pc = "msgid"
    /\ \E b \in Avail :
          /\ Pull(b)
          /\ f_msgid' = b
          /\ f_good' = (f_good /\ b \in MI)
          /\ f_raw' = Append(f_raw, b)
    /\ f_pc' = "len"
    /\ UNCHANGED <<f_len, f_payload, f_emitted, f_badlen>>
    /\ UNCHANGED <<rpcVars, queueVars, linkVars, fnVars>>

\* faulty variant: the length byte is taken as it comes
ReadLen_unbounded ==
    /\ f_pc = "len"
    /\ \E b \in Avail :
          /\ Pull(b)
          /\ f_len' = b
          /\ f_raw' = Append(f_raw, b)
          /\ f_pc' = IF b = 0 THEN "crc" ELSE "payload"
    /\ f_payload' = <<>>
    /\ UNCHANGED <<f_msgid, f_good, f_emitted, f_badlen>>
    /\ UNCHANGED <<rpcVars, queueVars, linkVars, fnVars>>

\* "payload_len = next(stream)" and the test of the length, with its
\* logger.error
ReadLen ==
    /\ f_pc = "len"
    /\ \E b \in Avail :
          /\ Pull(b)
          /\ f_len' = b
          /\ f_raw' = Append(f_raw, b)
          /\ f_pc' = IF b > MaxPayloadLen THEN "skip" ELSE IF b = 0 THEN "crc" ELSE "payload"
          /\ f_badlen' = IF b > MaxPayloadLen THEN f_badlen + 1 ELSE f_badlen
    /\ f_payload' = <<>>
    /\ UNCHANGED <<f_msgid, f_good, f_emitted>>
    /\ UNCHANGED <<rpcVars, queueVars, linkVars, fnVars>>

\* faulty variant: the rest of the message skipped up to an ETX only
SkipRest_etx_only ==
    /\ f_pc = "skip"
    /\ \E b \in Avail :
          /\ Pull(b)
          /\ f_raw' = Append(f_raw, b)
          /\ f_pc' = IF b = ETX THEN "scan" ELSE "skip"
    /\ UNCHANGED <<f_msgid, f_len, f_payload, f_good, f_emitted, f_badlen>>
    /\ UNCHANGED <<rpcVars, queueVars, linkVars, fnVars>>

\* "while next(stream) not in valid_fins: pass; continue"
SkipRest ==
    /\ f_pc = "skip"
    /\ \E b \in Avail :
          /\ Pull(b)
          /\ f_raw' = Append(f_raw, b)
          /\ f_pc' = IF b \in valid_fins THEN "scan" ELSE "skip"
    /\ UNCHANGED <<f_msgid, f_len, f_payload, f_good, f_emitted, f_badlen>>
    /\ UNCHANGED <<rpcVars, queueVars, linkVars, fnVars>>

\* one next(stream) of "payload = [next(stream) for _ in range(payload_len)]"
ReadPayload ==
    /\ f_pc = "payload"
    /\ \E b \in Avail :
          /\ Pull(b)
          /\ f_payload' = Append(f_payload, b)
          /\ f_raw' = Append(f_raw, b)
    /\ f_pc' = IF Len(f_payload') = f_len THEN "crc" ELSE "payload"
    /\ UNCHANGED <<f_msgid, f_len, f_good, f_emitted, f_badlen>>
    /\ UNCHANGED <<rpcVars, queueVars, linkVars, fnVars>>

\* faulty variant: the CRC byte is read and not compared
ReadCRC_unchecked ==
    /\ f_pc = "crc"
    /\ \E b \in Avail :
          /\ Pull(b)
          /\ f_raw' = Append(f_raw, b)
    /\ f_pc' = "fin"
    /\ UNCHANGED <<f_msgid, f_len, f_payload, f_good, f_emitted, f_badlen>>
    /\ UNCHANGED <<rpcVars, queueVars, linkVars, fnVars>>

\* "crc = next(stream)" and the test against crc8(bytes(payload))
ReadCRC ==
    /\ f_pc = "crc"
    /\ \E b \in Avail :
          /\ Pull(b)
          /\ f_good' = (f_good /\ b = crc8(f_payload))
          /\ f_raw' = Append(f_raw, b)
    /\ f_pc' = "fin"
    /\ UNCHANGED <<f_msgid, f_len, f_payload, f_emitted, f_badlen>>
    /\ UNCHANGED <<rpcVars, queueVars, linkVars, fnVars>>

\* "fin = next(stream)", the test of the terminator, and "parse and emit"
ReadFin ==
    /\ f_pc = "fin"
    /\ \E fin \in Avail :
          /\ Pull(fin)
          /\ f_raw' = Append(f_raw, fin)
          /\ LET good == f_good /\ fin \in valid_fins
                 msg == IF good THEN decode_message(f_msgid, f_payload, fin) ELSE <<>>
             IN /\ f_good' = good
                /\ f_emitted' =
                      IF msg # <<>>
                      THEN Append(f_emitted,
                                  [msgid |-> msg[1].msgid, payload |-> msg[1].payload,
                                   fin |-> msg[1].fin,
                                   cls |-> message_class(msg[1].msgid, msg[1].payload),
                                   attrs |-> message_attrs(msg[1].msgid, msg[1].payload),
                                   frame |-> f_raw', at |-> Len(f_fed') - Len(f_raw') + 1])
                      ELSE f_emitted
    /\ f_pc' = "scan"
    /\ UNCHANGED <<f_msgid, f_len, f_payload, f_badlen>>
    /\ UNCHANGED <<rpcVars, queueVars, linkVars, fnVars>>

(* SpecFramer: decode_bytestream pulling an arbitrary byte stream *)

NextFramer ==
    \/ ScanSTX
    \/ ReadMsgid
    \/ ReadLen
    \/ SkipRest
    \/ ReadPayload
    \/ ReadCRC
    \/ ReadFin

SpecFramer == Init /\ [][NextFramer]_vars

(* SpecStreams: decode_bytestream pulling a stream put together from frames *)

MaxPay == 2        \* length of the short payloads
MaxGarbage == 2    \* number of free bytes in what precedes the valid frame

RECURSIVE SeqsUpTo(_, _)
\* the sequences over S of length at most n
SeqsUpTo(S, n) ==
    IF n = 0 THEN {<<>>}
    ELSE LET T == SeqsUpTo(S, n - 1)
         IN T \cup {Append(t, b) : t \in {x \in T : Len(x) = n - 1}, b \in S}

\* the ids decode_message turns into a plain Message
OpaqueIds ==
    MI \ {ECGWaveformPacket, Accelerometer100MgPacket, AccelerometerPacket,
          BreathingWaveformPacket, EventPacket, GeneralDataPacket, SummaryDataPacket,
          RtoRPacket}

\* payloads: the short ones over bytes that include STX and a terminator,
\* and two long ones, of the longest accepted length and one less
PayBytes == {0, STX, ETX, 255}
LongPayload(n) == [i \in 1..n |-> (7 * i) % 256]
SamplePayloads ==
    SeqsUpTo(PayBytes, MaxPay) \cup {LongPayload(MaxPayloadLen - 1), LongPayload(MaxPayloadLen)}

Given(bytes, kind, pre, m) ==
    [given |-> TRUE, rest |-> bytes, kind |-> kind, pre |-> pre, m |-> m]

\* the frame of a message and nothing else
FrameStreams ==
    {Given(encode_message(Message(id, P, fin)), "frame", <<>>, Message(id, P, fin)) :
        id \in OpaqueIds, P \in SamplePayloads, fin \in valid_fins}

\* the messages whose frame follows garbage or a bogus frame
ResyncMsgs == {Message(Lifesign, <<>>, ETX), Message(GetSerialNumber, <<STX, ETX>>, ACK)}

\* garbage, then a valid frame
GarbageBytes == {0, STX, ETX, Lifesign, 255}
GarbageStreams ==
    {Given(G \o encode_message(m), "garbage", G, m) :
        G \in SeqsUpTo(GarbageBytes, MaxGarbage), m \in ResyncMsgs}

\* a frame with a length byte beyond 128: STX, an id, the length, further
\* bytes, a terminator
BogusFrames ==
    {<<STX, id, len>> \o X \o <<fin>> :
        id \in {GeneralDataPacket, 201}, len \in {MaxPayloadLen + 1, 255},
        X \in SeqsUpTo(GarbageBytes, MaxGarbage), fin \in valid_fins}

\* a bogus frame, then a valid frame
BadLenStreams ==
    {Given(B \o encode_message(m), "badlen", B, m) : B \in BogusFrames, m \in ResyncMsgs}

\* a valid frame in which payload byte i has been given the value v
FlipMsgs ==
    {Message(id, P, ETX) : id \in {Lifesign, GetSerialNumber}, P \in SamplePayloads \ {<<>>}}
FlipBytes == {0, 1, STX, ETX, 254, 255}
FlipPositions(P) == {1, (Len(P) + 1) \div 2, Len(P)}
Flipped(m, i, v) ==
    <<STX, m.msgid, Len(m.payload)>> \o [m.payload EXCEPT ![i] = v]
        \o <<crc8(m.payload), m.fin>>
FlipStreams ==
    UNION {{Given(Flipped(m, iv[1], iv[2]), "flip", <<>>, m) :
                iv \in {x \in FlipPositions(m.payload) \X FlipBytes :
                            x[2] # m.payload[x[1]]}} :
           m \in FlipMsgs}

\* the 9 bytes every streaming packet starts with: sequence number 1,
\* 2020-01-01, 0 ms
StreamingHeader == <<1, 228, 7, 1, 1, 0, 0, 0, 0>>

\* a SummaryData payload: the header, the version byte, 60 bytes of one
\* value (all 0, all 1, or all 255) and a last byte (the high byte of the
\* extended status word of version 2)
SummaryVersions == {0, 1, 2, 3, 4, 255}
SummaryFill == {0, 1, 255}
SummaryLast == {0, 128, 255}
SummaryPayload(ver, fill, last) ==
    StreamingHeader \o <<ver>> \o [i \in 1..60 |-> fill] \o <<last>>

\* the frame of a SummaryData packet, then the frame of a life sign
SummaryStreams ==
    {Given(encode_message(Message(SummaryDataPacket, SummaryPayload(ver, fill, last), ETX))
               \o encode_message(Message(Lifesign, <<>>, ETX)),
           "summary", <<>>,
           Message(SummaryDataPacket, SummaryPayload(ver, fill, last), ETX)) :
        ver \in SummaryVersions, fill \in SummaryFill, last \in SummaryLast}

\* payloads for the checksum: every single byte, and the longer ones over
\* bytes with few and with many bits set
MaxCrcLen == 3     \* length of the longer checksum payloads
CrcBytes == {0, 1, STX, ETX, 127, 128, 254, 255}
CrcPayloads == {<<b>> : b \in 0..255} \cup SeqsUpTo(CrcBytes, MaxCrcLen)

\* a frame as the device makes it, its checksum computed bit by bit
CrcStreams ==
    {Given(<<STX, GetSerialNumber, Len(P)>> \o P \o <<crc8_slow(P), ETX>>,
           "crc", <<>>, Message(GetSerialNumber, P, ETX)) : P \in CrcPayloads}

\* the bytes after the header of a waveform payload of n bytes: all 0, all
\* 1, all 255, a single 1 at the front or at the end, and bytes that differ
WaveData(n) ==
    {[i \in 1..(n - 9) |-> 0], [i \in 1..(n - 9) |-> 1], [i \in 1..(n - 9) |-> 255],
     [i \in 1..(n - 9) |-> IF i = 1 THEN 1 ELSE 0],
     [i \in 1..(n - 9) |-> IF i = n - 9 THEN 1 ELSE 0],
     [i \in 1..(n - 9) |-> (7 * i + 3) % 256]}

WaveIds ==
    {ECGWaveformPacket, BreathingWaveformPacket, AccelerometerPacket,
     Accelerometer100MgPacket, RtoRPacket}

\* the frame of a waveform packet, its payload of the asserted length, or
\* one byte shorter or longer
WaveStreams ==
    UNION {{Given(encode_message(Message(id, StreamingHeader \o D, ETX)), "wave", <<>>,
                  Message(id, StreamingHeader \o D, ETX)) :
                D \in UNION {WaveData(n) : n \in {PayloadLen[id] - 1, PayloadLen[id],
                                                  PayloadLen[id] + 1}}} :
           id \in WaveIds}

\* the payloads of Event packets: a header (good, or with month 13) cut
\* short or followed by an event code and event data
EventPayloads ==
    {Slice(H \o <<64, 0, 5, 6>>, 0, n) :
        H \in {StreamingHeader, [StreamingHeader EXCEPT ![4] = 13]},
        n \in {0, 1, 8, 9, 10, 11, 12, 13}}

\* the frame of an Event packet, then the frame of a life sign
EventStreams ==
    {Given(encode_message(Message(EventPacket, P, ETX))
               \o encode_message(Message(Lifesign, <<>>, ETX)),
           "event", <<>>, Message(EventPacket, P, ETX)) : P \in EventPayloads}

\* frames the framer drops although their length byte is accepted: an
\* unknown id, a wrong checksum byte, or a byte that is no terminator (0, or
\* STX) in the terminator position; the payloads are short ones over 0, STX
\* and ETX, and the whole frame of a life sign
DroppedFrames ==
    {<<STX, d[1], Len(d[2])>> \o d[2] \o <<(crc8(d[2]) + d[3]) % 256, d[4]>> :
        d \in {x \in {GetSerialNumber, 201}
                        \X (SeqsUpTo({0, STX, ETX}, MaxPay)
                               \cup {encode_message(Message(Lifesign, <<>>, ETX))})
                        \X {0, 1} \X {ETX, 0, STX} :
                    x[1] \notin MI \/ x[3] # 0 \/ x[4] \notin valid_fins}}

\* a dropped frame, then a valid frame
DropStreams ==
    {Given(D \o encode_message(m), "drop", D, m) : D \in DroppedFrames, m \in ResyncMsgs}

\* a streaming payload of n bytes: the header with the given date, then zeros
DatedPayload(year, month, day, n) ==
    [i \in 1..n |-> CASE i = 1 -> 1
                      [] i = 2 -> year % 256
                      [] i = 3 -> year \div 256
                      [] i = 4 -> month
                      [] i = 5 -> day
                      [] OTHER -> 0]

\* dates datetime.datetime refuses
BadDates ==
    {<<2020, 13, 1>>, <<2020, 0, 1>>, <<2020, 1, 0>>, <<2020, 2, 30>>, <<2021, 2, 29>>,
     <<0, 1, 1>>, <<10000, 1, 1>>}

\* the length the parser of an id asks for (Event: at least 9)
AskedLen(id) == IF id = EventPacket THEN 9 ELSE PayloadLen[id]

\* payloads on which the parser of the id raises: a wrong length, or the
\* right length and a date that does not exist
FailingPayloads(id) ==
    {DatedPayload(2020, 1, 1, n) :
        n \in {0, AskedLen(id) - 1} \cup (IF id = EventPacket THEN {} ELSE {AskedLen(id) + 1})}
        \cup {DatedPayload(d[1], d[2], d[3], AskedLen(id)) : d \in BadDates}

\* a frame that passes the framer's checks and fails in its parser, then a
\* valid frame
ParseFailStreams ==
    UNION {{Given(encode_message(Message(id, P, ETX)) \o encode_message(m), "parse",
                  encode_message(Message(id, P, ETX)), m) :
                P \in FailingPayloads(id), m \in ResyncMsgs} :
           id \in {GeneralDataPacket, RtoRPacket, BreathingWaveformPacket, EventPacket}}

GivenStreams ==
    FrameStreams \cup GarbageStreams \cup BadLenStreams \cup FlipStreams
        \cup SummaryStreams \cup CrcStreams \cup WaveStreams \cup EventStreams
        \cup DropStreams \cup ParseFailStreams

InitStreams ==
    /\ InitRpc /\ InitQueue /\ InitLink /\ _reconnect = TRUE
    /\ InitDecoder
    /\ f_stream \in GivenStreams
    /\ InitFn

SpecStreams == InitStreams /\ [][NextFramer]_vars

(* SpecParse: parse_num applied to given arguments *)

\* bytes with the top bit clear and set, and the bytes of the sentinels
ParseBytes == {0, 1, 127, 128, 255}

\* the sentinels the parsers pass as inval (<<>> for None)
Invals == {<<>>, <<65535>>, <<32768>>, <<255>>, <<128>>, <<0>>}

\* the byte sequences parse_num is given: up to 4 bytes, those of 4 bytes
\* below 2^31, and one of 5 bytes
ParseInputs ==
    {e \in SeqsUpTo(ParseBytes, 4) : Len(e) = 4 => e[4] < 128} \cup {<<1, 0, 0, 0, 0>>}

InitParse ==
    /\ InitRpc /\ InitQueue /\ InitFramer /\ InitLink /\ _reconnect = TRUE
    /\ pn \in {[encoded |-> e, signed |-> sg, inval |-> iv, ret |-> <<>>] :
                  e \in ParseInputs, sg \in BOOLEAN, iv \in Invals}

\* the call returns, or raises
parse_num_call ==
    /\ pn.ret = <<>>
    /\ pn' = [pn EXCEPT !.ret = <<parse_num(pn.encoded, pn.signed, pn.inval)>>]
    /\ UNCHANGED <<rpcVars, queueVars, framerVars, linkVars>>

SpecParse == InitParse /\ [][parse_num_call]_vars

----------------------------------------------------------------------------
(* bluetooth.py: BioharnessIO and its worker thread *)

MaxEnq == 2        \* messages put on the send queue per run
MaxConnects == 2   \* connect attempts per run
MaxIter == 2       \* iterations of the transmit/receive loop per run

\* the clock readings of a run span one life-sign interval
MaxNow == 2 * lifesign_interval + 1

\* the messages the producers enqueue; the last one is what
\* toggle_summary(handler, ival=300) enqueues: a payload byte beyond 255
OutMsgs == {Message(GetSerialNumber, <<>>, ETX),
            Message(SetECGWaveformPacketTransmitState, <<1>>, ETX),
            Message(SetSummaryDataPacketUpdateRate, <<300, 0>>, ETX)}

\* a member of the enumeration MC or MI handed over in place of a Message
Member(enum, value) == [enum |-> enum, value |-> value]

\* the object has the attributes of a Message
IsMessage(obj) == "msgid" \in DOMAIN obj

\* encode_message does not raise: the object has msgid, payload and fin (else
\* AttributeError), every element handed to bytes([...]) is in 0..255 (else
\* ValueError), and so is every payload byte, which crc8 uses as an index of
\* its table (else IndexError)
Encodable(msg) ==
    /\ IsMessage(msg)
    /\ msg.msgid \in 0..255
    /\ Len(msg.payload) \in 0..255
    /\ \A i \in 1..Len(msg.payload) : msg.payload[i] \in 0..255
    /\ msg.fin \in 0..255

\* BioharnessIO.enqueue_message(msg), what it puts on the queue: "if
\* isinstance(msg, MC) and msg in MC" a Message with that msgid, else the
\* argument as it came
Enqueued(msg) ==
    IF ~IsMessage(msg) /\ msg.enum = "MC" THEN Message(msg.value, <<>>, ETX) ELSE msg

\* BioharnessIO.enqueue_message, called from any thread with a Message
enqueue_message ==
    /\ enq_count < MaxEnq
    /\ \E msg \in OutMsgs :
          _send_queue' = Append(_send_queue, [msg |-> Enqueued(msg), no |-> enq_count + 1])
    /\ enq_count' = enq_count + 1
    /\ UNCHANGED <<rpcVars, framerVars, linkVars, fnVars>>

\* what enqueue_message is called with when the caller passes an identifier:
\* members of MI, members of MC, and for comparison the Messages of the ids
EnqueueArgs ==
    {Member("MI", Lifesign), Member("MI", GetSerialNumber), Member("MC", ETX),
     Member("MC", ACK), Message(Lifesign, <<>>, ETX), Message(GetSerialNumber, <<>>, ETX)}

\* BioharnessIO.enqueue_message, called with an identifier or a Message
enqueue_message_arg ==
    /\ enq_count < MaxEnq
    /\ \E msg \in EnqueueArgs :
          _send_queue' = Append(_send_queue, [msg |-> Enqueued(msg), no |-> enq_count + 1])
    /\ enq_count' = enq_count + 1
    /\ UNCHANGED <<rpcVars, framerVars, linkVars, fnVars>>

\* the worker thread has left _run
Exited == w_pc \in {"stopped", "raised"}

\* BioharnessIO.shutdown up to the join of the thread
shutdown ==
    /\ ~Exited
    /\ ~_shutdown
    /\ _shutdown' = TRUE
    /\ UNCHANGED <<w_pc, _reconnect, sock, sock_log, connects, io_errors, w_iter>>
    /\ UNCHANGED <<open_socks, now, last_lifesign_sent_at, recv_empty>>
    /\ UNCHANGED <<rpcVars, queueVars, framerVars, fnVars>>

\* time.time() advancing by a second
Tick ==
    /\ now < MaxNow
    /\ now' = now + 1
    /\ UNCHANGED <<w_pc, _shutdown, _reconnect, sock, sock_log, connects, io_errors, w_iter>>
    /\ UNCHANGED <<open_socks, last_lifesign_sent_at, recv_empty>>
    /\ UNCHANGED <<rpcVars, queueVars, framerVars, fnVars>>

\* _send_message succeeding: the frame of the entry is handed to sock.send
\* (t: the clock reading at the send)
_send_message(entry, t) ==
    sock_log' = Append(sock_log, [sock |-> sock, no |-> entry.no,
                                  raw |-> encode_message(entry.msg), t |-> t])

\* _run: "while not self._shutdown" and the creation of the socket
_run_loop ==
    /\ w_pc = "loop_head"
    /\ IF _shutdown
       THEN w_pc' = "stopped" /\ UNCHANGED open_socks
       ELSE /\ connects < MaxConnects
            /\ open_socks' = open_socks \cup {connects + 1}
            /\ w_pc' = "connect"
    /\ UNCHANGED <<_shutdown, _reconnect, sock, sock_log, connects, io_errors, w_iter>>
    /\ UNCHANGED <<now, last_lifesign_sent_at, recv_empty>>
    /\ UNCHANGED <<rpcVars, queueVars, framerVars, fnVars>>

\* faulty variant: one decoder kept over the connections, reading on where
\* the last connection stopped
_run_connected_keeps_decoder ==
    /\ w_pc = "connect"
    /\ connects' = connects + 1
    /\ sock' = connects'
    /\ last_lifesign_sent_at' = 0
    /\ recv_empty' = FALSE
    /\ w_pc' = "transmit"
    /\ f_fed' = <<>>
    /\ UNCHANGED <<f_pc, f_msgid, f_len, f_payload, f_good, f_raw>>
    /\ UNCHANGED <<f_emitted, f_stream, f_badlen>>
    /\ UNCHANGED <<_shutdown, _reconnect, sock_log, io_errors, w_iter, open_socks, now>>
    /\ UNCHANGED <<rpcVars, queueVars, fnVars>>

\* _run: sock.connect succeeds; decode_bytestream(self._transmit_loop(sock))
\* makes a new decoder on a new stream, and _transmit_loop starts with its
\* local at 0
_run_connected ==
    /\ w_pc = "connect"
    /\ connects' = connects + 1
    /\ sock' = connects'
    /\ last_lifesign_sent_at' = 0
    /\ recv_empty' = FALSE
    /\ w_pc' = "transmit"
    /\ f_pc' = "scan" /\ f_msgid' = 0 /\ f_len' = 0 /\ f_payload' = <<>>
    /\ f_good' = TRUE /\ f_raw' = <<>> /\ f_fed' = <<>>
    /\ UNCHANGED <<f_emitted, f_stream, f_badlen>>
    /\ UNCHANGED <<_shutdown, _reconnect, sock_log, io_errors, w_iter, open_socks, now>>
    /\ UNCHANGED <<rpcVars, queueVars, fnVars>>

\* faulty variant: a failed connect always goes back to the head of the loop
_run_connect_failed_always_retry ==
    /\ w_pc = "connect"
    /\ connects' = connects + 1
    /\ w_pc' = "loop_head"
    /\ UNCHANGED <<_shutdown, _reconnect, sock, sock_log, io_errors, w_iter>>
    /\ UNCHANGED <<open_socks, now, last_lifesign_sent_at, recv_empty>>
    /\ UNCHANGED <<rpcVars, queueVars, framerVars, fnVars>>

\* _run: sock.connect raises IOError; neither branch closes the socket
_run_connect_failed ==
    /\ w_pc = "connect"
    /\ connects' = connects + 1
    /\ IF _reconnect
       THEN w_pc' = "loop_head" /\ UNCHANGED _shutdown
       ELSE w_pc' = "stopped" /\ _shutdown' = TRUE
    /\ UNCHANGED <<_reconnect, sock, sock_log, io_errors, w_iter>>
    /\ UNCHANGED <<open_socks, now, last_lifesign_sent_at, recv_empty>>
    /\ UNCHANGED <<rpcVars, queueVars, framerVars, fnVars>>

\* "for b in data: yield b" is through: the decoder has pulled every byte of
\* the last recv and the loop body of _run has handled what it yielded
Yielded == f_stream.rest = <<>> /\ Len(f_emitted) <= dispatched

\* faulty variant: the transmit/receive loop that does not test the flag
_transmit_loop_head_ignores_shutdown ==
    /\ w_pc = "transmit"
    /\ Yielded
    /\ w_iter < MaxIter
    /\ w_iter' = w_iter + 1
    /\ \/ /\ _send_message([msg |-> Message(Lifesign, <<>>, ETX), no |-> 0], now)
          /\ w_pc' = "drain"
       \/ /\ w_pc' = "except_IOError"
          /\ UNCHANGED sock_log
    /\ UNCHANGED last_lifesign_sent_at
    /\ UNCHANGED <<_shutdown, _reconnect, sock, connects, io_errors>>
    /\ UNCHANGED <<open_socks, now, recv_empty>>
    /\ UNCHANGED <<rpcVars, queueVars, framerVars, fnVars>>

\* faulty variant: the loop going on while bytes of the last read are still
\* with the decoder
_transmit_loop_head_eager ==
    /\ w_pc = "transmit"
    /\ IF _shutdown
       THEN w_pc' = "except_RuntimeError"
            /\ UNCHANGED <<sock_log, w_iter, last_lifesign_sent_at>>
       ELSE /\ w_iter < MaxIter
            /\ w_iter' = w_iter + 1
            /\ IF now - last_lifesign_sent_at > lifesign_interval
               THEN \/ /\ _send_message([msg |-> Message(Lifesign, <<>>, ETX),
                                         no |-> 0], now)
                       /\ last_lifesign_sent_at' = 0
                       /\ w_pc' = "drain"
                    \/ /\ w_pc' = "except_IOError"
                       /\ UNCHANGED <<sock_log, last_lifesign_sent_at>>
               ELSE /\ w_pc' = "drain"
                    /\ UNCHANGED <<sock_log, last_lifesign_sent_at>>
    /\ UNCHANGED <<_shutdown, _reconnect, sock, connects, io_errors>>
    /\ UNCHANGED <<open_socks, now, recv_empty>>
    /\ UNCHANGED <<rpcVars, queueVars, framerVars, fnVars>>

\* _transmit_loop: "while not self._shutdown", "t = time.time()" and the life
\* sign, which is sent when "t - last_lifesign_sent_at > self._lifesign_interval"
\* and followed by "last_lifesign_sent_at = 0". When the flag is set the
\* generator returns, and next(stream) in decode_bytestream surfaces as a
\* RuntimeError in _run.
_transmit_loop_head ==
    /\ w_pc = "transmit"
    /\ Yielded
    /\ IF _shutdown
       THEN w_pc' = "except_RuntimeError"
            /\ UNCHANGED <<sock_log, w_iter, last_lifesign_sent_at>>
       ELSE /\ w_iter < MaxIter
            /\ w_iter' = w_iter + 1
            /\ IF now - last_lifesign_sent_at > lifesign_interval
               THEN \/ /\ _send_message([msg |-> Message(Lifesign, <<>>, ETX),
                                         no |-> 0], now)
                       /\ last_lifesign_sent_at' = 0
                       /\ w_pc' = "drain"
                    \/ /\ w_pc' = "except_IOError"
                       /\ UNCHANGED <<sock_log, last_lifesign_sent_at>>
               ELSE /\ w_pc' = "drain"
                    /\ UNCHANGED <<sock_log, last_lifesign_sent_at>>
    /\ UNCHANGED <<_shutdown, _reconnect, sock, connects, io_errors>>
    /\ UNCHANGED <<open_socks, now, recv_empty>>
    /\ UNCHANGED <<rpcVars, queueVars, framerVars, fnVars>>

\* faulty variant: the drain loop taking a message off the queue only once
\* it has been sent
_transmit_loop_drain_requeue ==
    /\ w_pc = "drain"
    /\ IF _send_queue = <<>>
       THEN w_pc' = "recv" /\ UNCHANGED <<_send_queue, sock_log>>
       ELSE IF Encodable(Head(_send_queue).msg)
            THEN \/ /\ _send_message(Head(_send_queue), now)
                    /\ _send_queue' = Tail(_send_queue)
                    /\ w_pc' = "drain"
                 \/ /\ w_pc' = "except_IOError"
                    /\ UNCHANGED <<_send_queue, sock_log>>
            ELSE /\ w_pc' = "finally_ValueError"
                 /\ _send_queue' = Tail(_send_queue)
                 /\ UNCHANGED sock_log
    /\ UNCHANGED <<_shutdown, _reconnect, sock, connects, io_errors, w_iter, enq_count>>
    /\ UNCHANGED <<open_socks, now, last_lifesign_sent_at, recv_empty>>
    /\ UNCHANGED <<rpcVars, framerVars, fnVars>>

\* faulty variant: the drain loop taking the newest message of the queue first
_transmit_loop_drain_newest ==
    /\ w_pc = "drain"
    /\ IF _send_queue = <<>>
       THEN w_pc' = "recv" /\ UNCHANGED <<_send_queue, sock_log>>
       ELSE /\ _send_queue' = SubSeq(_send_queue, 1, Len(_send_queue) - 1)
            /\ IF Encodable(_send_queue[Len(_send_queue)].msg)
               THEN \/ /\ _send_message(_send_queue[Len(_send_queue)], now)
                       /\ w_pc' = "drain"
                    \/ /\ w_pc' = "except_IOError"
                       /\ UNCHANGED sock_log
               ELSE /\ w_pc' = "finally_ValueError"
                    /\ UNCHANGED sock_log
    /\ UNCHANGED <<_shutdown, _reconnect, sock, connects, io_errors, w_iter, enq_count>>
    /\ UNCHANGED <<open_socks, now, last_lifesign_sent_at, recv_empty>>
    /\ UNCHANGED <<rpcVars, framerVars, fnVars>>

\* _transmit_loop: one round of "while not self._send_queue.empty()": get the
\* oldest message and send it; sock.send may raise IOError, and encode_message
\* raises ValueError (or IndexError, from crc8) for a message that is not
\* Encodable, which no except clause of _run catches
_transmit_loop_drain ==
    /\ w_pc = "drain"
    /\ IF _send_queue = <<>>
       THEN w_pc' = "recv" /\ UNCHANGED <<_send_queue, sock_log>>
       ELSE /\ _send_queue' = Tail(_send_queue)
            /\ IF Encodable(Head(_send_queue).msg)
               THEN \/ /\ _send_message(Head(_send_queue), now)
                       /\ w_pc' = "drain"
                    \/ /\ w_pc' = "except_IOError"
                       /\ UNCHANGED sock_log
               ELSE /\ w_pc' = "finally_ValueError"
                    /\ UNCHANGED sock_log
    /\ UNCHANGED <<_shutdown, _reconnect, sock, connects, io_errors, w_iter, enq_count>>
    /\ UNCHANGED <<open_socks, now, last_lifesign_sent_at, recv_empty>>
    /\ UNCHANGED <<rpcVars, framerVars, fnVars>>

\* an Event payload: sequence number, 2020-01-01, 0 ms, event code 64
EventPayload == <<1, 228, 7, 1, 1, 0, 0, 0, 0, 64, 0>>

\* what the device sends: a life sign, the reply to a query, an Event packet
InboundMsgs == {Message(Lifesign, <<>>, ETX), Message(GetSerialNumber, <<>>, ACK),
                Message(EventPacket, EventPayload, ETX)}

\* what one sock.recv(256) can return: a frame, or a frame after the rest of
\* a frame with a bad length byte
RecvData ==
    {encode_message(m) : m \in InboundMsgs \ {Message(Lifesign, <<>>, ETX)}}
        \cup {<<STX, Lifesign, 201, ETX>> \o encode_message(Message(Lifesign, <<>>, ETX))}

\* _transmit_loop: sock.recv(256) returns data (the bytes "for b in data:
\* yield b" hands to the decoder, one at a time), returns no data (which is
\* only logged: the loop goes on), or raises IOError
_transmit_loop_recv ==
    /\ w_pc = "recv"
    /\ \/ /\ w_pc' = "transmit" /\ recv_empty' = FALSE
          /\ \E data \in RecvData :
                f_stream' = IF f_stream.kind = "recv"
                            THEN [f_stream EXCEPT !.rest = data] ELSE f_stream
       \/ w_pc' = "transmit" /\ recv_empty' = TRUE /\ UNCHANGED f_stream
       \/ w_pc' = "except_IOError" /\ UNCHANGED <<recv_empty, f_stream>>
    /\ UNCHANGED <<f_pc, f_msgid, f_len, f_payload, f_good, f_raw, f_emitted, f_fed, f_badlen>>
    /\ UNCHANGED <<_shutdown, _reconnect, sock, sock_log, connects, io_errors, w_iter>>
    /\ UNCHANGED <<open_socks, now, last_lifesign_sent_at>>
    /\ UNCHANGED <<rpcVars, queueVars, fnVars>>

\* _run: the except clauses of the transfer
_run_except ==
    /\ w_pc \in {"except_RuntimeError", "except_IOError"}
    /\ io_errors' = IF w_pc = "except_IOError" THEN io_errors + 1 ELSE io_errors
    /\ w_pc' = "finally"
    /\ UNCHANGED <<_shutdown, _reconnect, sock, sock_log, connects, w_iter>>
    /\ UNCHANGED <<open_socks, now, last_lifesign_sent_at, recv_empty>>
    /\ UNCHANGED <<rpcVars, queueVars, framerVars, fnVars>>

\* _run: "finally: sock.close()", then back to the head of the reconnect loop,
\* or out of _run with the exception no except clause caught
_run_finally ==
    /\ w_pc \in {"finally", "finally_ValueError"}
    /\ sock' = 0
    /\ open_socks' = open_socks \ {sock}
    /\ w_pc' = IF w_pc = "finally" THEN "loop_head" ELSE "raised"
    /\ UNCHANGED <<_shutdown, _reconnect, sock_log, connects, io_errors, w_iter>>
    /\ UNCHANGED <<now, last_lifesign_sent_at, recv_empty>>
    /\ UNCHANGED <<rpcVars, queueVars, framerVars, fnVars>>

(* SpecLink: the worker thread, the producers of the send queue and         *)
(* shutdown, in runs shorter than a second; FairSpecLink adds that the      *)
(* worker thread keeps running and that connect, send and recv return;      *)
(* SpecClock adds the passing of time                                       *)

InitAnyLink == InitRpc /\ InitQueue /\ InitFramer /\ InitLink /\ InitFn

NextLink ==
    \/ enqueue_message
    \/ shutdown
    \/ _run_loop
    \/ _run_connected
    \/ _run_connect_failed
    \/ _transmit_loop_head
    \/ _transmit_loop_drain
    \/ _transmit_loop_recv
    \/ _run_except
    \/ _run_finally

SpecLink == InitAnyLink /\ [][NextLink]_vars

NextClock ==
    \/ NextLink
    \/ Tick

SpecClock == InitAnyLink /\ [][NextClock]_vars

FairSpecLink ==
    /\ SpecLink
    /\ WF_vars(_run_loop)
    /\ WF_vars(_run_connected \/ _run_connect_failed)
    /\ WF_vars(_transmit_loop_head)
    /\ WF_vars(_transmit_loop_drain)
    /\ WF_vars(_transmit_loop_recv)
    /\ WF_vars(_run_except)
    /\ WF_vars(_run_finally)

(* SpecSend: the worker thread started with one message on its send queue, *)
(* drawn from messages of every payload length class                        *)

\* payload lengths: none, short, the longest the frame format allows and one
\* less, one more, the longest bytes([...]) takes as a length, and one more
SendLens == {0, 1, 2, MaxPayloadLen - 1, MaxPayloadLen, MaxPayloadLen + 1, 255, 256}

\* the messages to send: Message(msgid, payload) with the default terminator
\* and Message(msgid, payload, fin); the payloads are bytes, but for the one
\* toggle_summary(handler, ival=300) makes
SendMsgs ==
    {Message(id, LongPayload(n), fin) :
        id \in {Lifesign, GetSerialNumber, SetSummaryDataPacketUpdateRate},
        n \in SendLens, fin \in valid_fins}
      \cup {Message(SetSummaryDataPacketUpdateRate, <<300, 0>>, ETX)}

InitSend ==
    /\ InitRpc /\ InitFramer /\ InitLink /\ _reconnect = TRUE
    /\ \E msg \in SendMsgs : _send_queue = <<[msg |-> msg, no |-> 1]>>
    /\ enq_count = 1
    /\ InitFn

NextSend ==
    \/ _run_loop
    \/ _run_connected
    \/ _run_connect_failed
    \/ _transmit_loop_head
    \/ _transmit_loop_drain
    \/ _transmit_loop_recv
    \/ _run_except
    \/ _run_finally

SpecSend == InitSend /\ [][NextSend]_vars

(* SpecEnqueue: the worker and a caller that enqueues identifiers *)

NextEnqueue ==
    \/ enqueue_message_arg
    \/ _run_loop
    \/ _run_connected
    \/ _run_connect_failed
    \/ _transmit_loop_head
    \/ _transmit_loop_drain
    \/ _transmit_loop_recv
    \/ _run_except
    \/ _run_finally

SpecEnqueue == Init /\ [][NextEnqueue]_vars

(* SpecCall: _call taken statement by statement next to the worker thread, *)
(* and a device that answers the commands written to it                    *)

\* the commands _call is given, with their payload argument
CallArgs ==
    {<<GetSerialNumber, PyList(<<>>)>>, <<SetECGWaveformPacketTransmitState, PyInt(1)>>}

\* the _call that has put its future and not yet sent its command (calls on
\* the event loop run one at a time up to their await)
HalfWay == Len(calls) = enq_count + 1

\* faulty variant: the future created but not put into the FIFO of its id
_call_put_unregistered ==
    /\ ~HalfWay
    /\ api_ops + dispatched < MaxOps
    /\ api_ops' = api_ops + 1
    /\ \E a \in CallArgs :
          calls' = Append(calls,
                [msgid |-> a[1], toggle |-> FALSE, handler |-> None,
                 fut |-> "pending", result |-> NoMsg, outcome |-> "awaiting",
                 err |-> 0, after |-> FALSE])
    /\ UNCHANGED <<_awaited_messages, _streaming_handlers, loop_ready, invoked, dispatched, posted>>
    /\ UNCHANGED <<queueVars, framerVars, linkVars, fnVars>>

\* _call: "fut = self._loop.create_future()" and
\* "self._awaited_messages[msgid].put(fut)"
_call_put ==
    /\ ~HalfWay
    /\ api_ops + dispatched < MaxOps
    /\ api_ops' = api_ops + 1
    /\ \E a \in CallArgs :
          /\ calls' = Append(calls,
                [msgid |-> a[1], toggle |-> FALSE, handler |-> None,
                 fut |-> "pending", result |-> NoMsg, outcome |-> "awaiting",
                 err |-> 0, after |-> FALSE])
          /\ _awaited_messages' = [_awaited_messages EXCEPT ![a[1]] = Append(@, Len(calls) + 1)]
    /\ UNCHANGED <<_streaming_handlers, loop_ready, invoked, dispatched, posted>>
    /\ UNCHANGED <<queueVars, framerVars, linkVars, fnVars>>

\* _call: "self._send(msgid, payload)" of the call that has put its future
_call_send ==
    /\ HalfWay
    /\ \E a \in CallArgs :
          /\ a[1] = calls[Len(calls)].msgid
          /\ _send(a[1], a[2])
    /\ UNCHANGED <<rpcVars, framerVars, linkVars, fnVars>>

\* the commands written to a socket so far
WrittenCmds == SelectSeq(sock_log, LAMBDA e : e.no > 0)

\* what the device answers to a command: a serial number to the query, an
\* acknowledgement to the others
Answer(msgid) ==
    IF msgid = GetSerialNumber THEN Message(msgid, <<65>>, ETX) ELSE Message(msgid, <<>>, ACK)

\* _transmit_loop: sock.recv(256) when the device answers each command
\* written to it once, in the order written: the frame of the next answer,
\* no data, or IOError
_transmit_loop_recv_reply ==
    /\ w_pc = "recv"
    /\ \/ /\ w_pc' = "transmit" /\ recv_empty' = FALSE
          /\ Len(f_emitted) < Len(WrittenCmds)
          /\ f_stream' = [f_stream EXCEPT !.rest =
                    encode_message(Answer(WrittenCmds[Len(f_emitted) + 1].raw[2]))]
       \/ w_pc' = "transmit" /\ recv_empty' = TRUE /\ UNCHANGED f_stream
       \/ w_pc' = "except_IOError" /\ UNCHANGED <<recv_empty, f_stream>>
    /\ UNCHANGED <<f_pc, f_msgid, f_len, f_payload, f_good, f_raw, f_emitted, f_fed, f_badlen>>
    /\ UNCHANGED <<_shutdown, _reconnect, sock, sock_log, connects, io_errors, w_iter>>
    /\ UNCHANGED <<open_socks, now, last_lifesign_sent_at>>
    /\ UNCHANGED <<rpcVars, queueVars, fnVars>>

(* SpecSystem: BioHarness with its BioharnessIO: the worker thread connects, *)
(* sends what the calls enqueue, hands what it receives to the decoder and  *)
(* each decoded message to the dispatcher, while the event loop runs the    *)
(* calls and the posted callbacks.  The device is in range (connects       *)
(* succeed) and the link is not shut down: those are SpecLink's part.       *)

\* the stream the decoder of the worker pulls: _transmit_loop(sock)
RecvStream == [given |-> TRUE, rest |-> <<>>, kind |-> "recv", pre |-> <<>>,
               m |-> [msgid |-> 0, payload |-> <<>>, fin |-> 0]]

\* faulty variant: the worker running the consumer's handler itself
_handle_message_inline ==
    /\ f_stream.kind = "recv"
    /\ dispatched < Len(f_emitted)
    /\ dispatched' = dispatched + 1
    /\ LET msg == f_emitted[dispatched + 1]
       IN invoked' = IF /\ msg.msgid \in DOMAIN _streaming_handlers
                        /\ _streaming_handlers[msg.msgid] # None
                     THEN invoked + 1 ELSE invoked
    /\ UNCHANGED <<framerVars, linkVars, fnVars>>
    /\ UNCHANGED <<_awaited_messages, _streaming_handlers, calls, loop_ready, posted>>
    /\ UNCHANGED <<queueVars, api_ops>>

\* _run: the body of "for msg in decode_bytestream(...)": self._handle_message,
\* which BioHarness.__init__ has set to _dispatch_message
_handle_message ==
    /\ f_stream.kind = "recv"
    /\ dispatched < Len(f_emitted)
    /\ dispatched' = dispatched + 1
    /\ LET msg == f_emitted[dispatched + 1]
       IN _dispatch_message([msgid |-> msg.msgid, payload |-> msg.payload,
                             fin |-> msg.fin, no |-> dispatched + 1])
    /\ UNCHANGED <<framerVars, linkVars, fnVars>>
    /\ UNCHANGED <<_streaming_handlers, calls, invoked, queueVars, api_ops>>

\* BioHarness.__init__: BioharnessIO(address, port, daemon=True), reconnect on
InitSystem ==
    /\ InitRpc /\ InitQueue /\ InitLink /\ _reconnect = TRUE
    /\ InitDecoder /\ f_stream = RecvStream
    /\ InitFn

NextSystem ==
    \/ Query
    \/ toggle_events
    \/ LoopStep
    \/ _run_loop
    \/ _run_connected
    \/ _transmit_loop_head
    \/ _transmit_loop_drain
    \/ _transmit_loop_recv
    \/ _run_except
    \/ _run_finally
    \/ NextFramer
    \/ _handle_message

SpecSystem == InitSystem /\ [][NextSystem]_vars

NextCall ==
    \/ _call_put
    \/ _call_send
    \/ _run_loop
    \/ _run_connected
    \/ _transmit_loop_head
    \/ _transmit_loop_drain
    \/ _transmit_loop_recv_reply
    \/ _run_except
    \/ _run_finally
    \/ ScanSTX
    \/ ReadMsgid
    \/ ReadLen
    \/ ReadPayload
    \/ ReadCRC
    \/ ReadFin
    \/ _handle_message

SpecCall == InitSystem /\ [][NextCall]_vars

(* SpecChunks: the worker with its decoder and the dispatcher, next to a     *)
(* device that sends the frame of one message and then a life sign, which   *)
(* sock.recv hands over in pieces of any length.  What a connection did not *)
(* read before it dropped, the next connection reads.  The cap of the       *)
(* iteration counter is MaxIter + 1 here: a frame cut off by a disconnect   *)
(* takes a read before it, the iteration that fails and a read after it.    *)

\* the messages whose frames the device sends first
ChunkMsgs == ResyncMsgs

\* the bytes the device sends for m
DeviceBytes(m) == encode_message(m) \o encode_message(Message(Lifesign, <<>>, ETX))

\* the stream of _transmit_loop(sock) with the bytes the device has not sent yet
DeviceStreams == {[RecvStream EXCEPT !.pre = DeviceBytes(m), !.m = m] : m \in ChunkMsgs}

\* faulty variant: every read of data handed to a decoder that starts anew
_transmit_loop_recv_chunk_restart ==
    /\ w_pc = "recv"
    /\ \/ /\ w_pc' = "transmit" /\ recv_empty' = FALSE
          /\ \E n \in 1..Len(f_stream.pre) :
                f_stream' = [f_stream EXCEPT
                                !.rest = SubSeq(f_stream.pre, 1, n),
                                !.pre = SubSeq(f_stream.pre, n + 1, Len(f_stream.pre))]
          /\ f_pc' = "scan" /\ f_raw' = <<>>
       \/ /\ w_pc' = "transmit" /\ recv_empty' = TRUE
          /\ UNCHANGED <<f_stream, f_pc, f_raw>>
       \/ /\ w_pc' = "except_IOError"
          /\ UNCHANGED <<recv_empty, f_stream, f_pc, f_raw>>
    /\ UNCHANGED <<f_msgid, f_len, f_payload, f_good, f_emitted, f_fed, f_badlen>>
    /\ UNCHANGED <<_shutdown, _reconnect, sock, sock_log, connects, io_errors, w_iter>>
    /\ UNCHANGED <<open_socks, now, last_lifesign_sent_at>>
    /\ UNCHANGED <<rpcVars, queueVars, fnVars>>

\* _transmit_loop: sock.recv(256) returns the next bytes of the device, as many
\* as have arrived, returns no data, or raises IOError
_transmit_loop_recv_chunk ==
    /\ w_pc = "recv"
    /\ \/ /\ w_pc' = "transmit" /\ recv_empty' = FALSE
          /\ \E n \in 1..Len(f_stream.pre) :
                f_stream' = [f_stream EXCEPT
                                !.rest = SubSeq(f_stream.pre, 1, n),
                                !.pre = SubSeq(f_stream.pre, n + 1, Len(f_stream.pre))]
       \/ w_pc' = "transmit" /\ recv_empty' = TRUE /\ UNCHANGED f_stream
       \/ w_pc' = "except_IOError" /\ UNCHANGED <<recv_empty, f_stream>>
    /\ UNCHANGED <<f_pc, f_msgid, f_len, f_payload, f_good, f_raw, f_emitted, f_fed, f_badlen>>
    /\ UNCHANGED <<_shutdown, _reconnect, sock, sock_log, connects, io_errors, w_iter>>
    /\ UNCHANGED <<open_socks, now, last_lifesign_sent_at>>
    /\ UNCHANGED <<rpcVars, queueVars, fnVars>>

\* BioHarness._send(MI.GetSerialNumber): a command put on the send queue
\* while the worker runs
_send_query ==
    /\ enq_count < MaxEnq
    /\ _send(GetSerialNumber, PyList(<<>>))
    /\ UNCHANGED <<rpcVars, framerVars, linkVars, fnVars>>

InitChunks ==
    /\ InitRpc /\ InitQueue
    /\ w_pc = "loop_head" /\ _shutdown = FALSE /\ _reconnect = TRUE
    /\ sock = 0 /\ sock_log = <<>> /\ connects = 0 /\ io_errors = 0
    /\ w_iter = -1
    /\ open_socks = {} /\ now = lifesign_interval + 1
    /\ last_lifesign_sent_at = 0 /\ recv_empty = FALSE
    /\ InitDecoder /\ f_stream \in DeviceStreams
    /\ InitFn

NextChunks ==
    \/ _send_query
    \/ _run_loop
    \/ _run_connected
    \/ _transmit_loop_head
    \/ _transmit_loop_drain
    \/ _transmit_loop_recv_chunk
    \/ _run_except
    \/ _run_finally
    \/ ScanSTX
    \/ ReadMsgid
    \/ ReadLen
    \/ ReadPayload
    \/ ReadCRC
    \/ ReadFin
    \/ _handle_message

SpecChunks == InitChunks /\ [][NextChunks]_vars

----------------------------------------------------------------------------
(* Properties of the facade *)

Min(S) == CHOOSE x \in S : \A y \in S : x <= y

\* the step pops the oldest reply slot of message id X
PopsSlot(X) ==
    /\ _awaited_messages[X] # <<>>
    /\ _awaited_messages'[X] = Tail(_awaited_messages[X])

\* C1: of two calls for the same id X that are pending at the same time, the one
\* issued first gets the first reply with id X that is dispatched, the other the
\* next one: a reply dispatched while several calls for X are pending goes to the
\* first-issued of them (first-issued, first-completed)
C1_FirstIssuedFirstCompleted ==
    [][\A X \in CommandIds :
          (PopsSlot(X) /\ Cardinality(Waiting(X)) >= 2)
              => Head(_awaited_messages[X]) = Min(Waiting(X))]_vars

\* (the ordering half of C1, which the code keeps: a later-issued call never
\* holds a reply while an earlier-issued call for the same id is still pending)
C1_OrderKept ==
    \A a, b \in DOMAIN calls :
        (a < b /\ calls[a].msgid = calls[b].msgid /\ calls[b].fut = "done")
            => ~(calls[a].outcome = "awaiting" /\ calls[a].fut = "pending")

\* C2: a call issued after another call for the same id has failed gets the
\* first reply with that id dispatched after it was sent: the failed call takes
\* no reply away from it
C2_FailureIsLocal ==
    [][\A X \in CommandIds :
          (PopsSlot(X) /\ Waiting(X) # {} /\ calls[Min(Waiting(X))].after)
              => ~Failed(Head(_awaited_messages[X]))]_vars

\* C3: the pending-reply FIFO of every id is exactly the sequence of the calls
\* to that id that are in flight, in issue order
C3_FifoIsInFlightCalls ==
    \A X \in DOMAIN _awaited_messages :
        LET q == _awaited_messages[X] IN
        /\ {q[i] : i \in DOMAIN q} = Waiting(X)
        /\ \A i, j \in DOMAIN q : i < j => q[i] < q[j]


\* the payload a toggle call must have sent
ExpectedPayloads(c) ==
    IF calls[c].msgid = SetSummaryDataPacketUpdateRate
    THEN IF calls[c].handler # None THEN {<<ival, 0>> : ival \in Intervals} ELSE {<<0, 0>>}
    ELSE IF calls[c].handler # None THEN {<<1>>} ELSE {<<0>>}

HandlerCallbacks == {i \in DOMAIN loop_ready : loop_ready[i].op = "handler"}

\* every toggle has put exactly one command on the send queue, with the
\* transmit-state id of its kind and the on/off payload
C5_OneCommand ==
    /\ Len(_send_queue) = Len(calls)
    /\ \A c \in DOMAIN calls :
          /\ _send_queue[c].msg.msgid = calls[c].msgid
          /\ calls[c].toggle => _send_queue[c].msg.payload \in ExpectedPayloads(c)

\* no posted handler invocation is executed twice or lost
C5_InvokedOnce == posted = invoked + Cardinality(HandlerCallbacks)

\* the step in which a toggle returns its reply writes the handler into the
\* slot of the kind's data packet
C5_Registers ==
    \A c \in DOMAIN calls :
        (calls[c].toggle /\ calls[c].outcome = "awaiting" /\ calls'[c].outcome = "returned")
            => _streaming_handlers'[transmit_state2data_packet[calls[c].msgid]]
                    = calls[c].handler

\* a periodic frame dispatched while a handler is registered for its id posts
\* exactly one invocation of that handler with the frame's record
C5_FramePosts ==
    \A k \in ModelPeriodic :
        LET m == [msgid |-> k, payload |-> <<>>, fin |-> ETX, no |-> dispatched + 1] IN
        (dispatched' = dispatched + 1 /\ _dispatch_message(m) /\ _streaming_handlers[k] # None)
            => loop_ready' = Append(loop_ready, [op |-> "handler", call |-> 0,
                                                 h |-> _streaming_handlers[k], msg |-> m])

C6_NoInvocationAfterClear ==
    [][invoked' = invoked + 1
          => _streaming_handlers[Head(loop_ready).msg.msgid] # None]_vars

\* the step in which some call fails with a timeout
TimesOut ==
    \E c \in DOMAIN calls :
        calls[c].outcome = "awaiting" /\ calls'[c].outcome = "TimeoutError"

\* C7: a call does not stay pending forever (time and again no call is pending,
\* so each one has finished); it returns a value (or a protocol
\* error) only if a reply with its id was dispatched for it, and otherwise fails
\* with a timeout; the timeout touches neither the send queue nor the I/O worker
C7_Timeout ==
    /\ [](\A c \in DOMAIN calls :
            /\ calls[c].outcome \in {"returned", "RuntimeError"}
                  => (calls[c].fut = "done" /\ calls[c].result.msgid = calls[c].msgid)
            /\ (calls[c].outcome # "awaiting" /\ calls[c].fut # "done")
                  => calls[c].outcome = "TimeoutError")
    /\ []<>(\A c \in DOMAIN calls : calls[c].outcome # "awaiting")
    /\ [][TimesOut => UNCHANGED <<queueVars, linkVars, _awaited_messages, loop_ready>>]_vars

\* a call has failed with a timeout although nothing was ever dispatched
C7_Witness ==
    /\ dispatched = 0
    /\ \E c \in DOMAIN calls : calls[c].outcome = "TimeoutError" /\ calls[c].fut = "cancelled"

\* C8: a call completed by a NAK reply fails with a protocol error naming the
\* message id and returns nothing; completed by ACK or ETX it returns the reply
C8_NakFails ==
    \A c \in DOMAIN calls :
        /\ calls[c].outcome = "RuntimeError"
              => (calls[c].result.fin = NAK /\ calls[c].err = calls[c].msgid)
        /\ calls[c].outcome = "returned"
              => (calls[c].result.fin \in {ACK, ETX} /\ calls[c].result.msgid = calls[c].msgid)

\* one call has failed on a NAK and another has returned its reply
C8_Witness ==
    /\ \E c \in DOMAIN calls : calls[c].outcome = "RuntimeError" /\ calls[c].result.fin = NAK
    /\ \E c \in DOMAIN calls : calls[c].outcome = "returned" /\ calls[c].result.fin = ACK

----------------------------------------------------------------------------
(* Properties of the framer *)

\* the bytes fr are a frame that passes every check of the framer
FrameOk(fr) ==
    /\ Len(fr) >= 5
    /\ fr[1] = STX
    /\ fr[2] \in MI
    /\ fr[3] <= 128
    /\ Len(fr) = fr[3] + 5
    /\ fr[fr[3] + 4] = crc8(SubSeq(fr, 4, fr[3] + 3))
    /\ fr[Len(fr)] \in {ETX, ACK, NAK}

\* every emitted message was cut out of the stream as a frame passing the checks
C4_EmittedFromValidFrame ==
    \A i \in DOMAIN f_emitted :
        LET e == f_emitted[i] IN
        /\ e.at >= 1
        /\ e.frame = SubSeq(f_fed, e.at, e.at + Len(e.frame) - 1)
        /\ FrameOk(e.frame)
        /\ e.msgid = e.frame[2]
        /\ e.payload = SubSeq(e.frame, 4, e.frame[3] + 3)
        /\ e.fin = e.frame[Len(e.frame)]

\* a message is emitted only by the step that reads the terminator of a frame
\* passing the checks; any other step, and a frame failing a check, emits nothing
C4_InvalidFrameDropped ==
    f_emitted' # f_emitted
        => /\ f_pc = "fin"
           /\ FrameOk(f_raw')
           /\ Len(f_emitted') = Len(f_emitted) + 1

\* C4: every message decode_bytestream emits comes from a frame that starts with
\* STX, has a known message id, LEN <= 128, a CRC byte equal to crc8 of its LEN
\* payload bytes and a terminator in {ETX, ACK, NAK}; a frame failing any of
\* these checks produces no message
C4_FramerSafety ==
    /\ []C4_EmittedFromValidFrame
    /\ [][C4_InvalidFrameDropped]_vars

\* a frame with a payload byte and a non-zero CRC byte has been emitted
C4_Witness ==
    \E i \in DOMAIN f_emitted :
        /\ Len(f_emitted[i].payload) = 1
        /\ f_emitted[i].frame[5] # 0

----------------------------------------------------------------------------
(* Properties of the link engine *)

\* C9: messages are written to the socket in the order in which they were put
\* on the send queue: of two queued messages that were both written, the one
\* enqueued first was written first, each with a single send of its whole frame
C9_SendOrder ==
    /\ \A i, j \in DOMAIN sock_log :
          (i < j /\ sock_log[i].no > 0 /\ sock_log[j].no > 0)
              => sock_log[i].no < sock_log[j].no
    /\ \A i \in DOMAIN _send_queue :
          /\ \A j \in DOMAIN sock_log : sock_log[j].no < _send_queue[i].no
          /\ \A j \in DOMAIN _send_queue : i < j => _send_queue[i].no < _send_queue[j].no

\* two queued messages have been written
C9_Witness ==
    \E i, j \in DOMAIN sock_log :
        i < j /\ sock_log[i].no = 1 /\ sock_log[j].no = 2

\* C10: after a transport error has ended the transfer of an established
\* connection, a new connect is attempted only if reconnect is enabled
C10_ReconnectOnlyIfEnabled ==
    (io_errors > 0 /\ ~_reconnect) => w_pc # "connect"

\* the step in which sock.connect raises
ConnectFails == w_pc = "connect" /\ w_pc' # "connect" /\ sock' = 0

\* C11: when a connect attempt fails and reconnect is enabled the worker goes
\* back to the head of its loop with the flag untouched, and from there it
\* attempts the next connect unless shutdown is requested; when reconnect is
\* disabled the failed attempt sets the shutdown flag and stops the worker for
\* good, without a send or an iteration of the transmit/receive loop
C11_ConnectFailure ==
    /\ [][ConnectFails =>
            /\ sock_log' = sock_log /\ w_iter' = w_iter
            /\ IF _reconnect
               THEN w_pc' = "loop_head" /\ _shutdown' = _shutdown
               ELSE w_pc' = "stopped" /\ _shutdown']_vars
    /\ [][w_pc = "stopped" => (w_pc' = "stopped" /\ sock_log' = sock_log
                               /\ w_iter' = w_iter /\ connects' = connects)]_vars
    /\ (w_pc = "loop_head" /\ ~_shutdown /\ connects < MaxConnects)
           ~> (w_pc = "connect" \/ _shutdown)

\* the first connect has failed with reconnect enabled and the second attempt
\* is under way
C11_Witness ==
    _reconnect /\ connects = 1 /\ w_pc = "connect" /\ w_iter = 0 /\ ~_shutdown

\* C12: every socket the worker creates is closed before it creates the next
\* one or leaves _run: none is open at the head of the reconnect loop or after
\* the thread has ended, and at most one is open at any time
C12_SocketsClosed ==
    /\ Cardinality(open_socks) <= 1
    /\ (w_pc = "loop_head" \/ Exited) => open_socks = {}

\* C13: once the shutdown flag is set the worker begins no further iteration
\* of the transmit/receive loop, sends and reads only within the iteration it
\* is in (its drain and its recv), attempts no connect beyond one already
\* under way, and eventually has closed its connection and left _run, so that
\* the join in shutdown() returns
C13_Shutdown ==
    /\ [][_shutdown => w_iter' = w_iter]_vars
    /\ [][(_shutdown /\ w_pc \notin {"drain", "recv"})
              => (sock_log' = sock_log /\ w_pc' \notin {"drain", "recv"})]_vars
    /\ [][(_shutdown /\ w_pc # "connect")
              => (w_pc' # "connect" /\ connects' = connects)]_vars
    /\ [][Exited => UNCHANGED linkVars]_vars
    /\ _shutdown ~> (Exited /\ sock = 0)

\* shutdown() was called during a transfer, and the worker has ended
C13_Witness ==
    /\ _reconnect /\ _shutdown /\ w_pc = "stopped"
    /\ sock = 0 /\ w_iter >= 1 /\ sock_log # <<>>

\* C14: the worker thread leaves _run only through the shutdown flag (set by
\* shutdown() or by a failed connect with reconnect disabled); no error of a
\* frame, a call or an enqueued message ends it
C14_WorkerEndsOnlyByShutdown ==
    Exited => (w_pc = "stopped" /\ _shutdown)

\* C15: after a sock.recv that returned no data the worker does not go on
\* with the connection: it is in no further drain of the send queue and in no
\* further recv on that socket
C15_NoDataEndsConnection ==
    recv_empty => w_pc \notin {"drain", "recv"}

\* C16: two life signs sent on one connection are at least lifesign_interval
\* apart, however many iterations of the loop run between them
C16_LifesignSpacing ==
    \A i, j \in DOMAIN sock_log :
        (i < j /\ sock_log[i].no = 0 /\ sock_log[j].no = 0
               /\ sock_log[i].sock = sock_log[j].sock)
            => sock_log[j].t - sock_log[i].t >= lifesign_interval

----------------------------------------------------------------------------
(* Properties of the codec over given streams *)

\* the whole of the given stream has been pulled
Consumed == f_stream.given /\ f_stream.rest = <<>>

\* exactly one message has been yielded, and it is m
EmitsExactly(m) ==
    /\ Len(f_emitted) = 1
    /\ f_emitted[1].msgid = m.msgid
    /\ f_emitted[1].payload = m.payload
    /\ f_emitted[1].fin = m.fin

\* C17: for a message with an opaque id, a payload of at most 128 bytes and
\* terminator ETX, ACK or NAK, decode_bytestream fed with encode_message of it
\* yields nothing before the last byte and, with the last byte, exactly one
\* message with the same id, payload and terminator
C17_RoundTrip ==
    f_stream.kind = "frame" =>
        IF Consumed THEN EmitsExactly(f_stream.m) ELSE f_emitted = <<>>

\* the frame of a message with a payload of 128 bytes and terminator NAK has
\* been decoded
C17_Witness ==
    /\ f_stream.kind = "frame" /\ Consumed
    /\ Len(f_stream.m.payload) = MaxPayloadLen /\ f_stream.m.fin = NAK
    /\ EmitsExactly(f_stream.m)

\* the byte values of a sequence
Values(s) == {s[i] : i \in DOMAIN s}

\* C18 as stated: whatever bytes precede one valid frame, STX and terminator
\* values included, exactly one message is yielded, the one of that frame
C18_ResyncAnyGarbage ==
    (f_stream.kind = "garbage" /\ Consumed) => EmitsExactly(f_stream.m)

\* C18 amended: when the bytes preceding one valid frame hold no STX, nothing
\* is yielded before the frame's last byte and exactly the frame's message
\* with it
C18_ResyncNoSTX ==
    (f_stream.kind = "garbage" /\ STX \notin Values(f_stream.pre)) =>
        IF Consumed THEN EmitsExactly(f_stream.m) ELSE f_emitted = <<>>

\* garbage of two or more bytes with a terminator value among them, then the
\* frame, which has been decoded
C18_Witness ==
    /\ f_stream.kind = "garbage" /\ Consumed
    /\ Len(f_stream.pre) >= 2
    /\ ETX \in Values(f_stream.pre) /\ STX \notin Values(f_stream.pre)
    /\ EmitsExactly(f_stream.m)

\* the further bytes of a bogus frame: between its length byte and its
\* last byte
FurtherBytes(B) == SubSeq(B, 4, Len(B) - 1)

\* no STX follows a terminator value within the sequence
NoSTXAfterFin(X) ==
    \A i, j \in DOMAIN X : (i < j /\ X[i] \in valid_fins) => X[j] # STX

\* C19 as stated: a bogus frame (STX, an id, a length byte above 128, any
\* further bytes, a terminator) followed by a valid frame yields the valid
\* frame's message only and one bad-length error
C19_BadLenAnyBytes ==
    (f_stream.kind = "badlen" /\ Consumed) =>
        (EmitsExactly(f_stream.m) /\ f_badlen = 1)

\* C19 amended: when no STX follows a terminator value among the further
\* bytes of the bogus frame, the stream yields the valid frame's message only,
\* with the frame's last byte, and exactly one bad-length error is reported
C19_BadLenSkip ==
    (f_stream.kind = "badlen" /\ NoSTXAfterFin(FurtherBytes(f_stream.pre))) =>
        IF Consumed
        THEN EmitsExactly(f_stream.m) /\ f_badlen = 1
        ELSE f_emitted = <<>> /\ f_badlen <= 1

\* a bogus frame with an STX among its further bytes, then the valid frame,
\* which has been decoded after one bad-length error
C19_Witness ==
    /\ f_stream.kind = "badlen" /\ Consumed
    /\ STX \in Values(FurtherBytes(f_stream.pre))
    /\ NoSTXAfterFin(FurtherBytes(f_stream.pre))
    /\ EmitsExactly(f_stream.m) /\ f_badlen = 1

\* crc8 tells apart any two payloads of equal length that differ in exactly
\* one byte: every short sample payload from each of its one-byte changes, and
\* the table is one-to-one, which carries a difference of the accumulator
\* through the rest of a payload of any length
CrcSeparatesOneByteChanges ==
    /\ \A a, b \in 0..255 : a # b => CRC_LUT[a] # CRC_LUT[b]
    /\ \A P \in SeqsUpTo(PayBytes, MaxPay) : \A i \in DOMAIN P : \A v \in 0..255 :
          v # P[i] => crc8([P EXCEPT ![i] = v]) # crc8(P)

\* C20: a valid frame in which one payload byte has been changed to another
\* value, with length, checksum byte and terminator as they were, yields no
\* message; crc8 differs for the two payloads
C20_FlipDropped ==
    /\ CrcSeparatesOneByteChanges
    /\ f_stream.kind = "flip" => f_emitted = <<>>

\* a frame with a changed byte in a payload of 128 bytes has been consumed
\* and dropped
C20_Witness ==
    /\ f_stream.kind = "flip" /\ Consumed
    /\ Len(f_stream.m.payload) = MaxPayloadLen
    /\ f_pc = "scan" /\ ~f_good /\ f_emitted = <<>>

----------------------------------------------------------------------------
(* Properties of the dispatcher, the worker and the event loop together *)

\* the message the worker hands to the dispatcher in a step of _handle_message
Handled == f_emitted[dispatched + 1]

\* a dispatch without effect: no callback posted, hence no handler invoked and
\* no call completed; the handler table and every pending FIFO as before
DispatchDrops ==
    UNCHANGED <<_streaming_handlers, _awaited_messages, loop_ready, posted, calls, invoked>>

\* C21: dispatching a Lifesign, a periodic message whose handler slot is
\* empty, or a command reply whose id has an empty pending FIFO invokes no
\* handler, completes no call and leaves the handler table and every pending
\* FIFO unchanged; a command reply with a non-empty FIFO removes exactly the
\* oldest slot of its own id and touches no other id's FIFO.
C21_DispatchEffect ==
    [][dispatched' = dispatched + 1 =>
        LET m == Handled
            reply == m.msgid \notin periodic_messages \cup {Lifesign}
        IN /\ m.msgid = Lifesign => DispatchDrops
           /\ m.msgid \in periodic_messages /\ _streaming_handlers[m.msgid] = None
                => DispatchDrops
           /\ reply /\ _awaited_messages[m.msgid] = <<>> => DispatchDrops
           /\ reply /\ _awaited_messages[m.msgid] # <<>> =>
                /\ _awaited_messages'[m.msgid] = Tail(_awaited_messages[m.msgid])
                /\ \A i \in DOMAIN _awaited_messages \ {m.msgid} :
                      _awaited_messages'[i] = _awaited_messages[i]
                /\ UNCHANGED _streaming_handlers]_vars

\* a life sign has been dispatched, and a reply has taken the older of the two
\* slots of its id
C21_Witness ==
    /\ \E i \in 1..dispatched : f_emitted[i].msgid = Lifesign
    /\ \E c \in DOMAIN calls :
          /\ c + 1 \in DOMAIN calls
          /\ calls[c].msgid = GetSerialNumber /\ calls[c + 1].msgid = GetSerialNumber
          /\ Assigned(c)
          /\ _awaited_messages[GetSerialNumber] = <<c + 1>>

\* a step of the I/O worker: its position, its socket, its decoder or the
\* count of messages it has handed to the dispatcher changes
WorkerStep == linkVars' # linkVars \/ framerVars' # framerVars \/ dispatched' # dispatched

\* a step of an API call (a query or a toggle)
ApiStep == api_ops' # api_ops

\* C22: the I/O worker never runs a consumer handler and never completes a
\* reply slot itself: every handler invocation and every reply completion is
\* a callback posted to the event loop and executed there; the socket is
\* written, read and closed only by the I/O worker, and an API call touches
\* nothing of the link but the send queue, on which it puts its message.
C22_Planes ==
    [][/\ WorkerStep => UNCHANGED <<invoked, calls, api_ops>>
       /\ invoked' # invoked =>
            /\ loop_ready # <<>> /\ Head(loop_ready).op = "handler"
            /\ loop_ready' = Tail(loop_ready)
            /\ invoked <= posted
       /\ \A c \in DOMAIN calls :
            calls'[c].fut = "done" /\ calls[c].fut # "done" =>
                /\ loop_ready # <<>> /\ Head(loop_ready).op = "set_result"
                /\ Head(loop_ready).call = c
       /\ <<sock, sock_log, open_socks, f_fed>>' # <<sock, sock_log, open_socks, f_fed>>
            => WorkerStep
       /\ ApiStep =>
            /\ UNCHANGED <<linkVars, framerVars, dispatched, fnVars>>
            /\ \/ UNCHANGED _send_queue
               \/ /\ Len(_send_queue') = Len(_send_queue) + 1
                  /\ SubSeq(_send_queue', 1, Len(_send_queue)) = _send_queue
                  /\ _send_queue'[Len(_send_queue')].msg.msgid \in CommandIds]_vars

\* the event loop has run a handler and completed a call, for messages the
\* worker read from the socket after writing the call's command to it
C22_Witness ==
    /\ invoked > 0
    /\ \E c \in DOMAIN calls : calls[c].fut = "done"
    /\ \E i \in DOMAIN sock_log : sock_log[i].no > 0
    /\ f_fed # <<>>

\* C23: a SummaryData frame that passes the framing checks is decoded as a
\* SummaryDataMessageV2 exactly when its payload byte at offset 9 is 2 and as a
\* SummaryDataMessageV3 exactly when it is 3; for every other version byte no
\* message is emitted for the frame; in each case the framer goes on with the
\* following frame (here a life sign, which it emits).  Stated for well-formed
\* packets: 71 bytes of payload with a header that parses.
C23_SummaryVersion ==
    f_stream.kind = "summary" /\ Consumed =>
        LET ver == f_stream.m.payload[10]
            lifesign == f_emitted[Len(f_emitted)]
        IN /\ f_emitted # <<>>
           /\ lifesign.msgid = Lifesign /\ lifesign.payload = <<>>
           /\ IF ver \in {2, 3}
              THEN /\ Len(f_emitted) = 2
                   /\ f_emitted[1].msgid = SummaryDataPacket
                   /\ f_emitted[1].payload = f_stream.m.payload
                   /\ f_emitted[1].cls = IF ver = 2 THEN "SummaryDataMessageV2"
                                         ELSE "SummaryDataMessageV3"
              ELSE Len(f_emitted) = 1

----------------------------------------------------------------------------
(* Properties of encode_message and of what the link writes *)

\* C24: encode_message treats a message whose payload is longer than 128 bytes
\* as invalid and produces no frame for it, so that the link never writes a
\* frame whose LEN byte exceeds 128 to the socket.
C24_NoLongFrame ==
    \A i \in DOMAIN sock_log : sock_log[i].raw[3] <= MaxPayloadLen

\* the message of the frame a step hands to sock.send: the life sign of the
\* loop head, or the oldest message of the send queue
Sent ==
    IF sock_log'[Len(sock_log')].no = 0
    THEN Message(Lifesign, <<>>, ETX)
    ELSE Head(_send_queue).msg

\* C25: encode_message(msg) is exactly the byte sequence STX, msg.msgid,
\* len(payload), the payload bytes in order, crc8(payload), msg.fin (ETX when
\* the message was made without one); a Lifesign with empty payload encodes to
\* 02 23 00 00 03.
C25_EncodeBytes ==
    [][sock_log' # sock_log =>
        LET raw == sock_log'[Len(sock_log')].raw
            msg == Sent
            n == Len(msg.payload)
        IN /\ Len(sock_log') = Len(sock_log) + 1
           /\ Len(raw) = n + 5
           /\ raw[1] = 2
           /\ raw[2] = msg.msgid
           /\ raw[3] = n
           /\ \A i \in 1..n : raw[3 + i] = msg.payload[i]
           /\ raw[n + 4] = crc8(msg.payload)
           /\ raw[n + 5] = msg.fin
           /\ \A i \in 1..(n + 5) : raw[i] \in 0..255
           /\ (msg.msgid = Lifesign /\ n = 0 /\ msg.fin = ETX) => raw = <<2, 35, 0, 0, 3>>]_vars

\* the socket has been given the frame of a life sign and the frame of a
\* message with 128 payload bytes and the terminator NAK
C25_Witness ==
    /\ \E i \in DOMAIN sock_log : sock_log[i].no = 0
    /\ \E i \in DOMAIN sock_log :
          /\ sock_log[i].no = 1
          /\ sock_log[i].raw[3] = MaxPayloadLen
          /\ sock_log[i].raw[MaxPayloadLen + 5] = NAK

----------------------------------------------------------------------------
(* Properties of the checksum and of the parsers *)

\* C26: for every byte sequence P (over bounded lengths) the table-driven
\* crc8(P) equals the bitwise crc8_slow(P), and the accumulator stays within
\* 0..255 after every byte: stated of the payload as the decoder has read it
\* so far (every prefix of P), and of the checksum byte of a frame made with
\* crc8_slow, which the decoder, testing it with crc8, accepts.
C26_CrcAgreement ==
    f_stream.kind = "crc" =>
        /\ crc8(f_payload) = crc8_slow(f_payload)
        /\ crc8(f_payload) \in 0..255
        /\ crc8_slow(f_payload) \in 0..255
        /\ f_pc \in {"crc", "fin"} => f_payload = f_stream.m.payload
        /\ f_pc = "fin" => f_good
        /\ Consumed => EmitsExactly(f_stream.m)

\* a frame with a payload of the greatest length and a checksum other than 0,
\* made with crc8_slow, has been accepted
C26_Witness ==
    /\ f_stream.kind = "crc" /\ Consumed
    /\ Len(f_emitted) = 1
    /\ Len(f_emitted[1].payload) = MaxCrcLen
    /\ f_emitted[1].payload[MaxCrcLen] = 255
    /\ f_emitted[1].frame[MaxCrcLen + 4] # 0


(* Properties of the waveform parsers *)

RECURSIVE RawBits(_, _, _)
\* the bits of the packed data from bit k on (bit 0 the least significant bit
\* of the first byte after the header), "bits" of them, as a binary number
\* with the first bit least significant
RawBits(payload, k, bits) ==
    IF bits = 0 THEN 0
    ELSE ((payload[10 + (k \div 8)] \div 2^(k % 8)) % 2) + 2 * RawBits(payload, k + 1, bits - 1)

\* the raw value of 10-bit sample j (from 0) of a payload
RawSample(payload, j) == RawBits(payload, 10 * j, 10)

\* a shifted sample as documented: missing for raw 0, else raw - 512
Shifted(raw) == IF raw = 0 THEN NaN ELSE Num(raw - 512)

\* a signed sample: the raw value in two's complement
Signed10(raw) == IF raw >= 512 THEN Num(raw - 1024) ELSE Num(raw)

\* C27: every decoded ECG record has 63 samples, every Breathing record 18,
\* every Accelerometer and Accelerometer100Mg record 20 values per axis, x, y
\* and z being the decoded values 3k, 3k+1 and 3k+2 of the 60, and every
\* R-to-R record 18 values
C27_WaveformLengths ==
    \A i \in DOMAIN f_emitted :
        LET e == f_emitted[i]
            a == e.attrs
            Val(j) == IF e.msgid = AccelerometerPacket THEN Shifted(RawSample(e.payload, j))
                      ELSE Signed10(RawSample(e.payload, j))
        IN /\ e.msgid = ECGWaveformPacket => Len(a.waveform) = 63
           /\ e.msgid = BreathingWaveformPacket => Len(a.waveform) = 18
           /\ e.msgid \in {AccelerometerPacket, Accelerometer100MgPacket} =>
                 /\ Len(a.accel_x) = 20 /\ Len(a.accel_y) = 20 /\ Len(a.accel_z) = 20
                 /\ \A k \in 0..19 : /\ a.accel_x[k + 1] = Val(3 * k)
                                     /\ a.accel_y[k + 1] = Val(3 * k + 1)
                                     /\ a.accel_z[k + 1] = Val(3 * k + 2)
           /\ e.msgid = RtoRPacket => Len(a.waveform) = 18

\* an ECG record has been decoded from an 88-byte payload whose 4-byte last
\* chunk ends in a byte 1, and its 63rd sample is a number
C27_Witness ==
    /\ f_stream.kind = "wave"
    /\ f_emitted # <<>>
    /\ LET e == f_emitted[1]
       IN /\ e.msgid = ECGWaveformPacket
          /\ Len(e.payload) = 88
          /\ e.payload[88] = 1
          /\ e.attrs.waveform[63] # NaN


RECURSIVE LittleEndian(_)
\* the unsigned little-endian value of a byte sequence
LittleEndian(encoded) ==
    IF encoded = <<>> THEN 0 ELSE Head(encoded) + 256 * LittleEndian(Tail(encoded))

\* C28: parse_num over N = 1..4 bytes with little-endian unsigned value u
\* returns missing exactly when a sentinel is supplied and u equals it,
\* otherwise u - 2^(8N) when signed is requested and the top bit of the most
\* significant byte is set, otherwise u
C28_ParseNum ==
    (pn.ret # <<>> /\ Len(pn.encoded) \in 1..4) =>
        LET N == Len(pn.encoded)
            u == LittleEndian(pn.encoded)
            missing == pn.inval # <<>> /\ u = pn.inval[1]
        IN /\ pn.ret[1].exc = ""
           /\ pn.ret[1].val.nan <=> missing
           /\ ~missing =>
                 pn.ret[1].val.num =
                    IF pn.signed /\ pn.encoded[N] \div 128 = 1 THEN u - 2^(8 * N) ELSE u

\* a signed call on the bytes 00 80 without a sentinel has returned -32768,
\* where the same bytes with the sentinel 0x8000 are missing
C28_Witness ==
    /\ pn.ret # <<>>
    /\ pn.encoded = <<0, 128>>
    /\ pn.signed
    /\ pn.inval = <<>>
    /\ pn.ret[1].val = Num(-32768)
    /\ parse_num(<<0, 128>>, TRUE, <<32768>>).val = NaN


\* the ids of the classes that unpack shifted 10-bit samples, and the number
\* of samples of a packet
ShiftedIds == {ECGWaveformPacket, BreathingWaveformPacket, AccelerometerPacket}
ShiftedVals(msgid) ==
    CASE msgid = ECGWaveformPacket -> 63
      [] msgid = BreathingWaveformPacket -> 18
      [] msgid = AccelerometerPacket -> 60

\* the decoded sample j (from 0) of a record, before scaling
DecodedSample(e, j) ==
    IF e.msgid = AccelerometerPacket
    THEN CASE j % 3 = 0 -> e.attrs.accel_x[(j \div 3) + 1]
           [] j % 3 = 1 -> e.attrs.accel_y[(j \div 3) + 1]
           [] j % 3 = 2 -> e.attrs.accel_z[(j \div 3) + 1]
    ELSE e.attrs.waveform[j + 1]

\* C29: an ECG frame whose 88-byte payload is zero after the header is
\* decoded into 63 missing samples; each shifted 10-bit sample is missing
\* exactly when its raw value is 0 and raw - 512 otherwise
C29_ShiftedSamples ==
    \A i \in DOMAIN f_emitted :
        LET e == f_emitted[i]
        IN /\ (e.msgid = ECGWaveformPacket /\ \A b \in 10..88 : e.payload[b] = 0) =>
                 e.attrs.waveform = [k \in 1..63 |-> NaN]
           /\ e.msgid \in ShiftedIds =>
                 \A j \in 0..(ShiftedVals(e.msgid) - 1) :
                     LET raw == RawSample(e.payload, j)
                     IN /\ DecodedSample(e, j).nan <=> raw = 0
                        /\ raw # 0 => DecodedSample(e, j) = Num(raw - 512)

\* the whole frame of an ECG packet with zero data has been read and a record
\* of 63 missing samples emitted
C29_Witness ==
    /\ f_stream.kind = "wave"
    /\ f_stream.rest = <<>>
    /\ Len(f_emitted) = 1
    /\ f_emitted[1].msgid = ECGWaveformPacket
    /\ \A b \in 10..88 : f_emitted[1].payload[b] = 0
    /\ Len(f_emitted[1].attrs.waveform) = 63
    /\ \A k \in 1..63 : f_emitted[1].attrs.waveform[k].nan


\* C30: an Event frame is decoded into an Event record only if its payload
\* has at least 11 bytes, the header and the 16-bit event code
C30_EventNeedsCode ==
    \A i \in DOMAIN f_emitted :
        f_emitted[i].cls = "EventMessage" => Len(f_emitted[i].payload) >= 11


(* Properties of enqueue_message *)

\* C31: a bare message identifier handed to enqueue_message is on the send
\* queue as a Message with that id and an empty payload
C31_BareIdIsMessage ==
    \A i \in DOMAIN _send_queue : IsMessage(_send_queue[i].msg)


(* Properties of the framer's error handling *)

\* the position in the stream of the first byte after the length byte of a
\* bogus frame B that is a terminator value
FirstFin(B) == CHOOSE k \in 4..Len(B) :
    B[k] \in valid_fins /\ \A j \in 4..(k - 1) : B[j] \notin valid_fins

\* C32: after a length byte above 128 nothing of that frame is decoded: every
\* byte up to and including the first one in {ETX, ACK, NAK} is discarded, and
\* the scan for STX resumes at the byte right after it
C32_SkipToFirstFin ==
    f_stream.kind = "badlen" =>
        LET k == FirstFin(f_stream.pre)
            n == Len(f_fed)
        IN /\ (3 <= n /\ n < k) => (f_pc = "skip" /\ f_emitted = <<>>)
           /\ n = k => (f_pc = "scan" /\ f_emitted = <<>>)
           /\ n = k + 1 => f_pc = (IF f_fed[n] = STX THEN "msgid" ELSE "scan")
           /\ n >= 3 => f_badlen >= 1
           /\ \A i \in DOMAIN f_emitted : f_emitted[i].at > k

\* a bogus frame whose further bytes hold an ETX followed by an STX: the skip
\* has ended at the ETX and the STX after it has been taken for a frame start
C32_Witness ==
    /\ f_stream.kind = "badlen"
    /\ FirstFin(f_stream.pre) < Len(f_stream.pre)
    /\ Len(f_fed) = FirstFin(f_stream.pre) + 1
    /\ f_fed[Len(f_fed)] = STX
    /\ f_pc = "msgid"


(* Properties of the transmit/receive loop *)

\* the step writes to the socket
Writes == sock_log' # sock_log

\* what the step writes
Written == sock_log'[Len(sock_log')]

\* C33: in an iteration of the transmit/receive loop the life sign comes
\* first, then every message of the send queue oldest first, then one read;
\* nothing is written while bytes of the last read are still undecoded or a
\* message decoded from them is still to be dispatched
C33_IterationOrder ==
    [][/\ Writes =>
            /\ f_stream.rest = <<>>
            /\ dispatched = Len(f_emitted)
            /\ f_pc' = f_pc
            /\ \/ w_pc = "transmit" /\ Written.no = 0 /\ w_pc' = "drain"
               \/ /\ w_pc = "drain" /\ _send_queue # <<>>
                  /\ Written.no = Head(_send_queue).no /\ w_pc' = "drain"
       /\ (w_pc = "drain" /\ w_pc' = "recv") => _send_queue = <<>>
       /\ (w_pc = "recv" /\ w_pc' = "transmit") => UNCHANGED <<sock_log, _send_queue>>
       /\ (w_pc = "transmit" /\ w_pc' = "drain") => UNCHANGED <<f_stream, _send_queue>>
      ]_vars

\* in the second iteration a command has been written right after the life
\* sign, after the message of the first read was decoded and dispatched
C33_Witness ==
    /\ f_stream.kind = "recv"
    /\ w_iter = 2
    /\ dispatched >= 1
    /\ dispatched = Len(f_emitted)
    /\ Len(sock_log) >= 3
    /\ sock_log[Len(sock_log)].no >= 1
    /\ sock_log[Len(sock_log) - 1].no = 0
    /\ sock_log[1].no = 0


\* the position of the decoder after n bytes of a frame with length byte len
\* that it reads through
PcAfter(n, len) ==
    CASE n = 1 -> "msgid"
      [] n = 2 -> "len"
      [] n >= 3 /\ n < len + 3 -> "payload"
      [] n = len + 3 -> "crc"
      [] n = len + 4 -> "fin"

\* C34: a frame with LEN <= 128 dropped for an unknown id, a wrong checksum or
\* an invalid terminator takes exactly LEN + 5 bytes from its STX, none of
\* which is examined again as a possible STX, and the valid frame right after
\* them is emitted
C34_DropConsumesFrame ==
    f_stream.kind = "drop" =>
        LET D == f_stream.pre
            n == Len(f_fed)
        IN /\ Len(D) = D[3] + 5
           /\ (1 <= n /\ n < Len(D)) =>
                 /\ f_pc = PcAfter(n, D[3])
                 /\ f_raw = SubSeq(D, 1, n)
                 /\ f_emitted = <<>>
           /\ n = Len(D) => (f_pc = "scan" /\ f_emitted = <<>>)
           /\ n = Len(D) + 1 => (f_pc = "msgid" /\ f_raw = <<STX>>)
           /\ \A i \in DOMAIN f_emitted : f_emitted[i].at = Len(D) + 1
           /\ Consumed => EmitsExactly(f_stream.m)

\* a dropped frame with an unknown id whose payload is the frame of a life
\* sign and whose terminator position holds an STX, and the valid frame after
\* it, which alone has been emitted
C34_Witness ==
    /\ f_stream.kind = "drop" /\ Consumed
    /\ f_stream.pre[2] \notin MI
    /\ f_stream.pre[3] = 5
    /\ f_stream.pre[Len(f_stream.pre)] = STX
    /\ EmitsExactly(f_stream.m)


\* C35: a frame that passes every framing check but whose payload parser
\* raises (wrong payload length for its id, or a header date that does not
\* exist) yields no message and does not end the framer: the valid frame
\* after it is emitted
C35_ParseErrorDropped ==
    f_stream.kind = "parse" =>
        /\ FrameOk(f_stream.pre)
        /\ Len(f_fed) <= Len(f_stream.pre) => f_emitted = <<>>
        /\ Len(f_fed) = Len(f_stream.pre) => (f_pc = "scan" /\ f_good)
        /\ Consumed => (EmitsExactly(f_stream.m) /\ f_emitted[1].at = Len(f_stream.pre) + 1)

\* a GeneralData frame of the right length dated 29 February 2021 has been
\* dropped and the frame after it emitted
C35_Witness ==
    /\ f_stream.kind = "parse" /\ Consumed
    /\ f_stream.pre[2] = GeneralDataPacket
    /\ f_stream.pre[3] = 53
    /\ SubSeq(f_stream.pre, 5, 8) = <<229, 7, 2, 29>>
    /\ EmitsExactly(f_stream.m)


(* Properties of _call next to the worker thread *)

\* the call numbers in the pending FIFO of an id
SlotsOf(msgid) == {_awaited_messages[msgid][i] : i \in DOMAIN _awaited_messages[msgid]}

\* a sequence of numbers in increasing order
Increasing(q) == \A i, j \in DOMAIN q : i < j => q[i] < q[j]

\* the call whose command is answered by the next message dispatched
Answered == WrittenCmds[dispatched + 1].no

\* at every moment: a command on the send queue or written to a socket
\* belongs to a call whose slot has been put (it is in the FIFO of its id, or
\* a reply has taken it), and the slots of an id and the commands on the send
\* queue are both in the order of the calls
C36_SlotsAndCommands ==
    /\ \A c \in 1..enq_count :
          /\ c \in DOMAIN calls
          /\ c \in SlotsOf(calls[c].msgid) \/ Assigned(c)
    /\ \A i \in DOMAIN _send_queue :
          _send_queue[i].msg.msgid = calls[_send_queue[i].no].msgid
    /\ Increasing([i \in DOMAIN _send_queue |-> _send_queue[i].no])
    /\ \A msgid \in DOMAIN _awaited_messages : Increasing(_awaited_messages[msgid])

\* when the reply to a command is dispatched, the slot of the call that sent
\* the command is in the FIFO of its id
C36_ReplyFindsSlot ==
    dispatched' = dispatched + 1 =>
        /\ Answered \in DOMAIN calls
        /\ Handled.msgid = calls[Answered].msgid
        /\ Answered \in SlotsOf(calls[Answered].msgid)

\* C36: _call puts its reply slot into the FIFO of its id before it puts the
\* command on the send queue: a reply is never dispatched while the slot of
\* the call that sent the command is missing from the FIFO, and the slots of
\* an id are in the order of that id's commands on the send queue
C36_SlotBeforeSend ==
    /\ []C36_SlotsAndCommands
    /\ [][C36_ReplyFindsSlot]_vars

\* the answer to the first call has been dispatched to its slot while a
\* second call of the same id has put its future and not yet sent its command
C36_Witness ==
    /\ f_stream.kind = "recv"
    /\ HalfWay
    /\ Len(calls) = 2
    /\ calls[1].msgid = calls[2].msgid
    /\ dispatched = 1
    /\ Assigned(1)
    /\ _awaited_messages[calls[2].msgid] = <<2>>


(* Properties of the decoder over the connections of the worker (SpecChunks) *)

\* the last n elements of s
Suffix(s, n) == SubSeq(s, Len(s) - n + 1, Len(s))

\* the bytes of a frame under way have all been pulled from the stream of
\* the present connection
FrameOfThisStream ==
    f_pc # "scan" => Len(f_raw) <= Len(f_fed) /\ f_raw = Suffix(f_fed, Len(f_raw))

\* a connection that has just been established has a decoder scanning for STX
\* with nothing read, and a message just emitted has a frame that ends the
\* bytes pulled from the stream of the present connection
C37_FreshOnConnect ==
    /\ connects' # connects /\ w_pc' = "transmit" =>
            f_pc' = "scan" /\ f_raw' = <<>> /\ f_fed' = <<>>
    /\ f_emitted' # f_emitted =>
            LET e == f_emitted'[Len(f_emitted')]
            IN  /\ Len(e.frame) <= Len(f_fed')
                /\ e.frame = Suffix(f_fed', Len(e.frame))
                /\ e.at = Len(f_fed') - Len(e.frame) + 1

\* C37: the framer state does not survive a connection: each established
\* connection starts a fresh decode_bytestream in the scan-for-STX state, so
\* the bytes of a frame that was cut off by a disconnect are discarded and are
\* never combined with bytes received on a later connection into one emitted
\* message.
C37_FramerPerConnection == []FrameOfThisStream /\ [][C37_FreshOnConnect]_vars

\* the first connection dropped inside the first frame of the device, and the
\* second connection has read all the device sent after that
C37_Witness ==
    /\ connects = 2
    /\ f_stream.pre = <<>> /\ f_stream.rest = <<>>
    /\ LET before == Len(DeviceBytes(f_stream.m)) - Len(f_fed)
       IN  before >= 1 /\ before < Len(encode_message(f_stream.m))


(* Properties of the send queue over the connections of the worker (SpecLink) *)

\* the numbers of the messages on the send queue
QueuedNos == {_send_queue[i].no : i \in DOMAIN _send_queue}

\* the numbers of the enqueued messages that were written to a socket
WrittenNos == {sock_log[i].no : i \in DOMAIN sock_log} \ {0}

\* the enqueued messages that were taken off the queue and not written
LostNos == (1..enq_count) \ (QueuedNos \cup WrittenNos)

\* no enqueued message is in the log of socket writes twice, and none that is
\* still queued is in it
C38_WrittenOnce ==
    /\ \A i, j \in DOMAIN sock_log :
            sock_log[i].no > 0 /\ sock_log[i].no = sock_log[j].no => i = j
    /\ QueuedNos \cap WrittenNos = {}

\* the queue loses a message only to the drain loop of an established
\* connection, which takes the oldest off before it writes it to the socket
\* of the connection, whether the write succeeds or not; the drain loop
\* leaves for recv only with the queue empty; a message taken off and not
\* written stays so
C38_QueueOverDrops ==
    /\ _send_queue' # _send_queue =>
        \/ /\ Len(_send_queue') = Len(_send_queue) + 1
           /\ SubSeq(_send_queue', 1, Len(_send_queue)) = _send_queue
        \/ /\ w_pc = "drain" /\ sock = connects /\ sock \in open_socks
           /\ _send_queue' = Tail(_send_queue)
    /\ w_pc = "drain" /\ _send_queue # <<>> /\ (w_pc' # w_pc \/ sock_log' # sock_log) =>
        /\ _send_queue' = Tail(_send_queue)
        /\ \/ /\ w_pc' = "drain"
              /\ Len(sock_log') = Len(sock_log) + 1
              /\ sock_log'[Len(sock_log')].no = Head(_send_queue).no
              /\ sock_log'[Len(sock_log')].sock = sock
           \/ /\ w_pc' \in {"except_IOError", "finally_ValueError"}
              /\ sock_log' = sock_log
              /\ Head(_send_queue).no \in LostNos'
    /\ w_pc = "drain" /\ w_pc' = "recv" => _send_queue = <<>>
    /\ LostNos \subseteq LostNos'

\* C38: every enqueued message is written to a socket at most once: a message
\* still in the send queue when a connection drops (or enqueued while
\* disconnected) stays queued and is written on the next established
\* connection, while a message that had already been dequeued when its socket
\* write failed is never written again.
C38_AtMostOnce == []C38_WrittenOnce /\ [][C38_QueueOverDrops]_vars

\* the first connection dropped at the write of message 1, and message 2 was
\* written on the second
C38_Witness ==
    /\ 1 \in LostNos
    /\ io_errors > 0
    /\ \E i \in DOMAIN sock_log : sock_log[i].no = 2 /\ sock_log[i].sock = 2


(* Properties of the handler table under failing toggles (Spec) *)

\* call c returns in this step
Returns(c) == calls[c].outcome = "awaiting" /\ calls'[c].outcome = "returned"

\* call c fails in this step
Fails(c) == calls[c].outcome = "awaiting" /\ Failed(c)'

\* C39: a toggle whose command fails (NAK reply or timeout) leaves the handler
\* table unchanged: the handler slot of the kind is written only after the
\* call has returned a reply with terminator ACK or ETX, and a toggle never
\* writes the slot of any other kind.
C39_FailedToggleNoWrite ==
    [][/\ (\E c \in DOMAIN calls : Fails(c)) => UNCHANGED _streaming_handlers
       /\ \A k \in DOMAIN _streaming_handlers :
            _streaming_handlers'[k] # _streaming_handlers[k] =>
                \/ k = EventPacket /\ api_ops' = api_ops + 1 /\ UNCHANGED calls
                \/ \E c \in DOMAIN calls :
                        /\ Returns(c)
                        /\ calls[c].toggle
                        /\ calls[c].fut = "done"
                        /\ calls[c].result.msgid = calls[c].msgid
                        /\ calls[c].result.fin \in {ACK, ETX}
                        /\ k = transmit_state2data_packet[calls[c].msgid]
                        /\ _streaming_handlers'[k] = calls[c].handler
                        /\ \A j \in DOMAIN _streaming_handlers \ {k} :
                                _streaming_handlers'[j] = _streaming_handlers[j]]_vars

\* a toggle has failed on a NAK reply and another on its timeout, both for a
\* handler, and the slot of their kind is still empty
C39_Witness ==
    /\ \E c \in DOMAIN calls :
            calls[c].toggle /\ calls[c].handler # None /\ calls[c].outcome = "RuntimeError"
    /\ \E c \in DOMAIN calls :
            calls[c].toggle /\ calls[c].handler # None /\ calls[c].outcome = "TimeoutError"
    /\ \A c \in DOMAIN calls : calls[c].msgid = SetECGWaveformPacketTransmitState
    /\ _streaming_handlers[ECGWaveformPacket] = None


(* Properties of the decoder over the reads of one connection (SpecChunks) *)

\* the fields of an emitted message that the decoder took from the frame
Decoded(e) == [msgid |-> e.msgid, payload |-> e.payload, fin |-> e.fin,
               frame |-> e.frame, at |-> e.at]

\* what the decoder emits for the first n bytes of the device when it reads
\* them at once: nothing inside the first frame, its message from its last
\* byte on, the life sign with the last byte of all
EmittedInOneRead(m, n) ==
    LET first == encode_message(m)
        sign == Message(Lifesign, <<>>, ETX)
        e1 == [msgid |-> m.msgid, payload |-> m.payload, fin |-> m.fin,
               frame |-> first, at |-> 1]
        e2 == [msgid |-> sign.msgid, payload |-> sign.payload, fin |-> sign.fin,
               frame |-> encode_message(sign), at |-> Len(first) + 1]
    IN  IF n < Len(first) THEN <<>>
        ELSE IF n < Len(DeviceBytes(m)) THEN <<e1>>
        ELSE <<e1, e2>>

\* C40: within one connection, the sequence of messages the framer emits
\* depends only on the concatenation of the received bytes and not on how the
\* socket reads split them into chunks: a frame whose bytes arrive spread over
\* two or more reads (with Lifesign and command sends in between) is decoded
\* exactly as if it had arrived in one read.
C40_ChunkingIrrelevant ==
    connects = 1 /\ w_pc \notin {"loop_head", "connect"} =>
        LET m == f_stream.m
            n == Len(f_fed)
        IN  /\ f_fed \o f_stream.rest \o f_stream.pre = DeviceBytes(m)
            /\ Len(f_emitted) = Len(EmittedInOneRead(m, n))
            /\ \A i \in DOMAIN f_emitted :
                    Decoded(f_emitted[i]) = EmittedInOneRead(m, n)[i]
            /\ n >= 1 /\ n < Len(encode_message(m)) =>
                    f_pc # "scan" /\ f_raw = f_fed

\* the commands and life signs written to the socket after the second life
\* sign of the connection
SentInSecondRound ==
    {i \in DOMAIN sock_log :
        \E j, k \in 1..(i - 1) : j < k /\ sock_log[j].no = 0 /\ sock_log[k].no = 0}

\* the first read has brought a part of the first frame, which the decoder
\* holds; the worker has since sent a life sign and a command and is about
\* to read again
C40_Witness ==
    /\ connects = 1 /\ w_pc = "recv" /\ w_iter = 1 /\ recv_empty = FALSE
    /\ f_stream.rest = <<>>
    /\ Len(f_fed) >= 1 /\ Len(f_fed) < Len(encode_message(f_stream.m))
    /\ f_pc # "scan"
    /\ \E i \in SentInSecondRound : sock_log[i].no > 0

====
